---- MODULE Spec2Model ----
(***************************************************************************)
(* The resilient data-access layer of the user service: the database       *)
(* circuit breaker of src/config/circuit-breaker.js (an opossum            *)
(* CircuitBreaker around an async-retry executor), driven by the calls     *)
(* dbCircuitBreaker.fire(operation, operationName) of the controllers.     *)
(*                                                                         *)
(* Time is in milliseconds.  Timers are kept as the time left until they   *)
(* expire (NoTimer when not armed); Tick advances time to the next expiry, *)
(* and an expired timer runs its callback before time moves on, as on the  *)
(* single-threaded event loop.  Every action is one callback run to        *)
(* completion (the synchronous part of fire, a timer callback, or the      *)
(* promise chain following the settlement of one store operation).         *)
(*                                                                         *)
(* Around the breaker, the handlers of src/controllers/user.controller.js  *)
(* work on the record store (the model of src/models/user.model.js or its  *)
(* in-memory mock) and on the cache of src/middleware/cache.middleware.js. *)
(* The class RedisCache (src/utils/redis-cache.js) is not among the        *)
(* sources at hand: the cache is modelled as section 4.3 of the            *)
(* specification describes it.                                             *)
(***************************************************************************)
EXTENDS Integers, Naturals, Sequences, FiniteSets, TLC

\* The breaker and the calls fired on it; the record store (getUser()), the
\* cache in front of the read by id, and the requests the handlers work on;
\* the connection to the database that connectToDatabase sets up.
VARIABLES dbCircuitBreaker, calls, User, redisCache, requests, database

vars == <<dbCircuitBreaker, calls, User, redisCache, requests, database>>

\* The state of the service around the breaker.
serviceVars == <<User, redisCache, requests, database>>

\* ------------------------------------------------------------- bounds
\* Calls that the breaker has admitted and whose executor has not finished,
\* and calls fired within one rolling window: under Spec, and under SpecRetry.
MaxInFlight == 2
MaxFires == 3
MaxRetryInFlight == 1
MaxRetryFires == 2
\* The requests of one run of the service, the calls they have in flight and
\* the calls they fire within one rolling window.
MaxRequests == 2
MaxServiceInFlight == 2
MaxServiceFires == 3
\* The reads and updates of one run of the service with its cache.
MaxCacheRequests == 3
\* The requests that come one after the other in one run of the service, and
\* the calls they fire within one rolling window.
MaxPasswordRequests == 4
MaxPasswordFires == 5
\* The requests for one user that run together in one run of the service.
MaxRaceRequests == 3
\* The attempts to connect that are counted.
MaxAttempts == 3

\* ---------------------------------------------------------- constants
\* dbCircuitOptions
failureThreshold == 50
resetTimeout == 30000
timeout == 10000
errorThresholdPercentage == 50
rollingCountTimeout == 60000
\* the retry options
retries == 5
minTimeout == 1000
maxTimeout == 8000
factor == 2
\* The breaker is built without rollingCountBuckets and volumeThreshold:
\* the window has the library's 10 buckets, and no minimum volume.
rollingCountBuckets == 10
volumeThreshold == 0

NoTimer == 0 - 1

\* The calls in progress; one more than in flight, for a call that is rejected.
CallIds == 1..(MaxInFlight + 1)

\* The error names the catch clause retries on.
ConnectionErrors ==
    { "SequelizeConnectionError", "SequelizeConnectionRefusedError",
      "SequelizeHostNotFoundError", "SequelizeConnectionTimedOutError" }

\* The errors the store operations of the model throw: other errors only, and
\* with a connection error.
OtherErrors == { "SequelizeUniqueConstraintError" }
StoreErrors == { "SequelizeConnectionRefusedError", "SequelizeUniqueConstraintError" }

\* The names the handlers give their operations; fire() with a name given,
\* and with none.
OperationNames ==
    { "unknown", "update_user", "update_user_password", "create_user",
      "find_user_by_email", "health_check" }
GivenOrNot == { "unknown", "update_user" }

\* How long a store operation takes: no time, some time, longer than timeout.
OpDurations == { 0, 4000, 12000 }
Immediate == { 0 }
\* No time, or longer than timeout and resetTimeout together.
LateDurations == { 0, 45000 }

\* The values of Math.random(), in thousandths, drawn for the retry delays of
\* one call: all least, and all rounding to the upper end of the range.
RandomDraws == { [ i \in 1..retries |-> 0 ], [ i \in 1..retries |-> 1000 ] }
NoJitter == { [ i \in 1..retries |-> 0 ] }
\* Each delay with its own value: least, middle, or rounding to the upper end.
JitterDraws == [ 1..retries -> { 0, 500, 1000 } ]

Min(a, b) == IF a <= b THEN a ELSE b
Max(a, b) == IF a >= b THEN a ELSE b

RECURSIVE Pow(_, _)
Pow(b, e) == IF e = 0 THEN 1 ELSE b * Pow(b, e - 1)

RECURSIVE Insert(_, _)
Insert(x, s) ==
    IF s = <<>> THEN <<x>>
    ELSE IF x <= Head(s) THEN <<x>> \o s
    ELSE <<Head(s)>> \o Insert(x, Tail(s))

\* Array.prototype.sort, ascending.
RECURSIVE SortAscending(_)
SortAscending(s) == IF s = <<>> THEN <<>> ELSE Insert(Head(s), SortAscending(Tail(s)))

\* ------------------------------------------------------ retry executor
\* Mutants of IsRetryable: no error is retried; every error is retried.
IsRetryableNever(err) == FALSE
IsRetryableAlways(err) == TRUE

\* The catch clause of the retried function: connection errors are thrown
\* again (retried), every other error bails out.
IsRetryable(err) == err \in ConnectionErrors

\* Mutant of createTimeout: the delay is not capped at maxTimeout.
createTimeoutUncapped(attempt, rnd) ==
    ((1000 + rnd) * Max(minTimeout, 1) * Pow(factor, attempt)) \div 1000

\* The delay of retry number attempt + 1 (attempt = 0 for the first retry):
\* round(random * max(minTimeout, 1) * factor^attempt), capped at maxTimeout,
\* with random = 1 + Math.random() as randomize is true.
createTimeout(attempt, rnd) ==
    Min(((1000 + rnd) * Max(minTimeout, 1) * Pow(factor, attempt)) \div 1000, maxTimeout)

\* Mutant of timeouts: one delay more than retries.
timeoutsOneMore(draw) ==
    SortAscending([ i \in 1..retries |-> createTimeout(i - 1, draw[i]) ])
        \o << maxTimeout >>

\* retry.timeouts(options): one delay per retry, sorted ascending.
timeouts(draw) ==
    SortAscending([ i \in 1..retries |-> createTimeout(i - 1, draw[i]) ])

\* op.retry(err): a retry is scheduled while a delay is left to shift.
HasRetryLeft(call) == Len(call.timeouts) > 0

\* ------------------------------------------------------ rolling window
bucket == [ fires |-> 0, failures |-> 0, successes |-> 0, timeouts |-> 0, rejects |-> 0 ]

RECURSIVE SumField(_, _, _)
SumField(w, f, i) == IF i > Len(w) THEN 0 ELSE w[i][f] + SumField(w, f, i + 1)

\* status.stats: the sums over the buckets of the window.
stat(b, f) == SumField(b.window, f, 1)
stats(b) == [ f \in DOMAIN bucket |-> stat(b, f) ]

\* status.increment(property): counts in the newest bucket.
increment(b, property) ==
    [ b EXCEPT !.window[1][property] = @ + 1 ]

bucketInterval == rollingCountTimeout \div rollingCountBuckets

\* nextBucket: the oldest bucket is dropped, a fresh one becomes the newest.
nextBucket(w) == <<bucket>> \o SubSeq(w, 1, Len(w) - 1)

\* ----------------------------------------------------- circuit breaker
\* The gauge in tenths: closed 1, half-open 0.5, open 0.
GaugeClosed == 10
GaugeHalfOpen == 5
GaugeOpen == 0

\* Mutant of open: a circuit that reopens keeps the reset timer as it was,
\* expired, instead of arming it again.
openWithoutTimer(b) ==
    IF b.state # "open"
    THEN [ b EXCEPT !.state = "open", !.pendingClose = FALSE,
                    !.resetTimer = IF b.state = "halfOpen" THEN 0 ELSE resetTimeout,
                    !.openAge = 0, !.gauge = GaugeOpen ]
    ELSE b

\* circuit.open(): the 'open' event arms the reset timer and sets the gauge.
open(b) ==
    IF b.state # "open"
    THEN [ b EXCEPT !.state = "open", !.pendingClose = FALSE,
                    !.resetTimer = resetTimeout, !.openAge = 0,
                    !.gauge = GaugeOpen ]
    ELSE b

\* circuit.close(): clears the reset timer; the 'close' event sets the gauge.
close(b) ==
    IF b.state # "closed"
    THEN [ b EXCEPT !.state = "closed", !.pendingClose = FALSE,
                    !.resetTimer = NoTimer, !.gauge = GaugeClosed ]
    ELSE b

\* Mutant of halfOpen: the 'halfOpen' listener does not set the gauge.
halfOpenKeepsGauge(b) ==
    [ b EXCEPT !.state = "halfOpen", !.pendingClose = TRUE, !.resetTimer = NoTimer ]

\* The reset timer's callback; the 'halfOpen' event sets the gauge.
halfOpen(b) ==
    [ b EXCEPT !.state = "halfOpen", !.pendingClose = TRUE,
               !.resetTimer = NoTimer, !.gauge = GaugeHalfOpen ]

\* stats.failures / stats.fires * 100 > errorThresholdPercentage, in floating
\* point: n / 0 is Infinity for n > 0 and NaN (never greater) for n = 0.
ErrorRateExceeded(s) ==
    IF s.fires = 0 THEN s.failures > 0
    ELSE s.failures * 100 > errorThresholdPercentage * s.fires

\* fail(): the 'failure' event is counted, then the circuit opens on the
\* error rate of the window, or at once when half-open.  failureThreshold is
\* no option the breaker reads; volumeThreshold is the minimum it knows.
ShouldOpen(b) ==
    /\ ~ (stat(b, "fires") < volumeThreshold /\ b.state # "halfOpen")
    /\ (ErrorRateExceeded(stats(b)) \/ b.state = "halfOpen")

\* Mutant of fail: the failure of a call that ends when the circuit is open
\* already is not counted.
failUnlessOpen(b) ==
    IF b.state = "open" THEN b
    ELSE LET counted == increment(b, "failures")
         IN IF ShouldOpen(counted) THEN open(counted) ELSE counted

fail(b) ==
    LET counted == increment(b, "failures")
    IN IF ShouldOpen(counted) THEN open(counted) ELSE counted

\* Mutant of succeed: any success closes the circuit, open or half-open.
succeedClosesAlways(b) ==
    close(increment(b, "successes"))

\* Mutant of succeed: the success of the trial is counted and the circuit is
\* left half-open.
succeedKeepsHalfOpen(b) == increment(b, "successes")

\* The 'success' event: counted, and a half-open circuit closes.
succeed(b) ==
    LET counted == increment(b, "successes")
    IN IF counted.state = "halfOpen" THEN close(counted) ELSE counted

\* Mutants of Admits: the check of the circuit's state is missing; a
\* half-open circuit passes every call, not only the pending trial.
AdmitsAlways(b) == TRUE
AdmitsWhenNotOpen(b) == b.state # "open"

\* fire() passes a call when the circuit is closed or a trial is pending.
Admits(b) == b.state = "closed" \/ b.pendingClose

\* --------------------------------------------------------------- state
NewCall ==
    [ st |-> "idle",        \* the promise fire() returned: idle, pending, settled
      out |-> "none",       \* what the caller received: ok, error, timeout, rejected
      outErr |-> "none",
      ex |-> "none",        \* the executor: running, sleeping, resolved, rejected
      exErr |-> "none",
      attempts |-> 0,       \* store operations started
      nfail |-> 0,          \* attempts that ended in a connection error
      lastErr |-> "none",   \* the error of the last attempt that threw
      timer |-> NoTimer,    \* the per-call timeout
      backoff |-> NoTimer,  \* the retry delay
      op |-> NoTimer,       \* the store operation under way
      timeouts |-> <<>>,    \* the retry delays left
      age |-> 0,            \* time since fire() while pending
      firedIn |-> "none",   \* the circuit's state when fire() was called
      startedIn |-> "none", \* the circuit's state when the last attempt started
      observed |-> 0,       \* duration observations emitted
      success |-> FALSE,    \* the label success of the observation
      operationName |-> "none", \* the second argument of fire()
      operation |-> "none" ]    \* the label operation of the observation

NewBreaker ==
    [ state |-> "closed", pendingClose |-> FALSE, resetTimer |-> NoTimer,
      window |-> [ i \in 1..rollingCountBuckets |-> bucket ],
      bucketTimer |-> bucketInterval,
      openAge |-> 0,        \* time since the circuit opened, while open
      gauge |-> GaugeClosed ]

\* A call whose promise is settled and whose executor has finished.
Finished(call) ==
    call.st = "settled" /\ call.ex \in { "none", "resolved", "rejected" }

\* A call admitted by the breaker whose executor is still at work.
InFlight(call) == call.ex \in { "running", "sleeping" }

Free(call) == call.st = "idle" \/ Finished(call)

\* -------------------------------------------------------- record store
\* The passwords of the requests: the fields of the test's requests.
Passwords == { "password123", "newPassword456" }

\* findByPk and findOne return null when no record matches.
null == [ id |-> 0, email |-> "", password |-> "", name |-> "" ]

\* bcrypt.hash and bcrypt.compare, as the capability they are: the hash of a
\* password is no password, and matches that password only.
hash(password) == "$2a$10$" \o password
compare(password, hashed) == hashed = hash(password)

\* The store behind getUser(): the model User of defineUserModel on the
\* database (mock is FALSE), or the mock of createMockUserModel; rows is the
\* table users, or the array mockUsers, and nextId the next id of the table's
\* sequence, or mockUserId.
NewStore(mock) == [ mock |-> mock, rows |-> <<>>, nextId |-> 1 ]

\* The result of a store operation: the error thrown, or the value returned
\* (a record, or the number of rows updated).
Returned(user, updated) == [ err |-> "none", user |-> user, updated |-> updated ]
Thrown(err) == [ err |-> err, user |-> null, updated |-> 0 ]

\* Array.prototype.findIndex, from 1; 0 when no element matches.
RECURSIVE findIndex(_, _, _, _)
findIndex(rows, field, value, i) ==
    IF i > Len(rows) THEN 0
    ELSE IF rows[i][field] = value THEN i
    ELSE findIndex(rows, field, value, i + 1)

\* Another record than id has the email: the unique index on email.
EmailTaken(store, email, id) ==
    \E i \in 1..Len(store.rows) :
        store.rows[i].email = email /\ store.rows[i].id # id

findByPk(store, id) ==
    LET i == findIndex(store.rows, "id", id, 1)
    IN Returned(IF i = 0 THEN null ELSE store.rows[i], 0)

findOne(store, email) ==
    LET i == findIndex(store.rows, "email", email, 1)
    IN Returned(IF i = 0 THEN null ELSE store.rows[i], 0)

\* Mutant of create: the id is taken without moving the sequence on.
createSameId(store, data) ==
    LET newUser == [ id |-> store.nextId, email |-> data.email,
                     password |-> data.password, name |-> data.name ]
    IN IF ~ store.mock /\ EmailTaken(store, data.email, 0)
       THEN [ store |-> store, res |-> Thrown("SequelizeUniqueConstraintError") ]
       ELSE [ store |-> [ store EXCEPT !.rows = Append(@, newUser) ],
              res |-> Returned(newUser, 0) ]

\* create(data): the mock pushes the record; the database refuses a record
\* whose email another record has (unique: true), the id of the sequence
\* being used up all the same.
create(store, data) ==
    LET newUser == [ id |-> store.nextId, email |-> data.email,
                     password |-> data.password, name |-> data.name ]
    IN IF ~ store.mock /\ EmailTaken(store, data.email, 0)
       THEN [ store |-> [ store EXCEPT !.nextId = @ + 1 ],
              res |-> Thrown("SequelizeUniqueConstraintError") ]
       ELSE [ store |-> [ store EXCEPT !.rows = Append(@, newUser), !.nextId = @ + 1 ],
              res |-> Returned(newUser, 0) ]

\* update({ name, email }, { where: { id } }): the rows affected.
update(store, data, id) ==
    LET userIndex == findIndex(store.rows, "id", id, 1)
    IN IF userIndex = 0 THEN [ store |-> store, res |-> Returned(null, 0) ]
       ELSE IF ~ store.mock /\ EmailTaken(store, data.email, id)
       THEN [ store |-> store, res |-> Thrown("SequelizeUniqueConstraintError") ]
       ELSE [ store |-> [ store EXCEPT !.rows[userIndex].name = data.name,
                                       !.rows[userIndex].email = data.email ],
              res |-> Returned(null, 1) ]

\* user.save() after user.password = hashedPassword.  The mock writes the
\* whole record it found back to its place; the database updates the field
\* that changed.
save(store, user, hashedPassword) ==
    LET index == findIndex(store.rows, "id", user.id, 1)
    IN IF index = 0 THEN [ store |-> store, res |-> Returned(null, 0) ]
       ELSE IF store.mock
       THEN [ store |-> [ store EXCEPT !.rows[index] =
                            [ user EXCEPT !.password = hashedPassword ] ],
              res |-> Returned([ user EXCEPT !.password = hashedPassword ], 0) ]
       ELSE [ store |-> [ store EXCEPT !.rows[index].password = hashedPassword ],
              res |-> Returned([ store.rows[index] EXCEPT !.password = hashedPassword ], 0) ]

\* ---------------------------------------------------------------- cache
\* createCacheMiddleware: the prefix of the keys and the default time to live,
\* and the time to live of the route GET /:id, in seconds.
prefix == "user-service:"
ttl == 3600
routeTtl == 300

\* The ids the requests name.
UserIds == 1..2

\* The key of a resource: <prefix>:<resourceId>.
key(id) == << prefix, id >>
Keys == { key(id) : id \in UserIds }

\* The body of GET /:id.
payload(user) == [ name |-> user.name, email |-> user.email ]
NoEntry == [ present |-> FALSE, value |-> payload(null), expiry |-> 0 ]

\* The cache: connected or not, and its entries with the time they have left,
\* in milliseconds.
NewCache == [ connected |-> TRUE, entries |-> [ k \in Keys |-> NoEntry ] ]

\* get(key): the value, or absent; an unavailable cache is a miss.
get(cache, k) ==
    IF cache.connected /\ cache.entries[k].present /\ cache.entries[k].expiry > 0
    THEN [ hit |-> TRUE, value |-> cache.entries[k].value ]
    ELSE [ hit |-> FALSE, value |-> payload(null) ]

\* set(key, value, ttl): ignored by an unavailable cache.
set(cache, k, value, seconds) ==
    IF cache.connected
    THEN [ cache EXCEPT !.entries[k] =
             [ present |-> TRUE, value |-> value, expiry |-> seconds * 1000 ] ]
    ELSE cache

\* invalidate(key): the entry is removed; the failure of an unavailable
\* cache is ignored.
del(cache, k) ==
    IF cache.connected THEN [ cache EXCEPT !.entries[k] = NoEntry ] ELSE cache

\* ------------------------------------------------------------- requests
ReqIds ==
    1..Max(Max(MaxRequests, MaxCacheRequests), Max(MaxPasswordRequests, MaxRaceRequests))

\* A request: the fields of req.params and req.body, the handler's place and
\* locals, and the response; for the properties, what the request did.
NewRequest ==
    [ kind |-> "none",
      pc |-> "new",            \* cache, handler, fired, save, del, done
      userId |-> 0, email |-> "", name |-> "", password |-> "", newPassword |-> "",
      call |-> 0,              \* the call fired on the breaker
      operation |-> "none",    \* the operation passed to fire()
      res |-> Returned(null, 0), \* what the store operation under way returns
      user |-> null,           \* the record found
      status |-> 0,            \* res.status
      body |-> "none",         \* the message sent
      json |-> payload(null),  \* the body of GET /:id
      storeOps |-> 0,          \* store operations the request has invoked
      mutated |-> FALSE,       \* the store has changed a record for it
      out |-> "none",          \* how the promise of fire() settled
      outErr |-> "none",
      invalidated |-> 0,       \* calls of del
      cacheDown |-> FALSE,     \* the cache was not connected when it was called
      hit |-> FALSE,           \* answered from the cache
      after |-> {},            \* the requests answered before it arrived
      within |-> {},           \* those answered less than routeTtl before
      age |-> 0 ]              \* time since the answer, up to routeTtl

\* The state of connectToDatabase: the environment (USE_MOCK_DB or NODE_ENV
\* 'test'; whether the server accepts connections; whether the database
\* exists on it), the place of the attempt under way, the timers set for a
\* new attempt and the time left of the latest, how the promise returned to
\* startServer has settled, and the attempts made.
NewDatabase(mock, reachable, exists) ==
    [ mock |-> mock, reachable |-> reachable, exists |-> exists,
      pc |-> "start",          \* start, authenticate, admin, create, reconnect,
                               \* sync, retry, done
      timers |-> 0, retryTimer |-> NoTimer,
      promise |-> "pending",   \* pending, resolved, rejected
      attempts |-> 0 ]

\* The service has started on its database.
Connected ==
    [ NewDatabase(FALSE, TRUE, TRUE) EXCEPT
        !.pc = "done", !.promise = "resolved", !.attempts = 1 ]

Init ==
    /\ dbCircuitBreaker = NewBreaker
    /\ calls = [ c \in CallIds |-> NewCall ]
    /\ User = NewStore(FALSE)
    /\ redisCache = NewCache
    /\ requests = [ r \in ReqIds |-> NewRequest ]
    /\ database = Connected

\* ------------------------------------------------------------- actions
\* Mutant of StartAttempt: every attempt arms the timeout of a pending call
\* anew.
StartAttemptRearmsTimeout(call, state, dur) ==
    [ call EXCEPT !.ex = "running", !.attempts = @ + 1, !.backoff = NoTimer,
                  !.startedIn = state, !.op = dur,
                  !.timer = IF call.st = "pending" THEN timeout ELSE @ ]

\* op.attempt / the retry timer's callback: the operation is invoked, and
\* takes dur.
StartAttempt(call, state, dur) ==
    [ call EXCEPT !.ex = "running", !.attempts = @ + 1, !.backoff = NoTimer,
                  !.startedIn = state, !.op = dur ]

\* Mutant of Observe: the duration is observed after the await, not in the
\* finally block.
ObserveAfterAwait(call, ok) ==
    IF ok
    THEN [ call EXCEPT !.observed = @ + 1, !.success = ok,
                       !.operation = call.operationName ]
    ELSE call

\* The finally block: one duration observation, labelled with the name of
\* the operation and with success.
Observe(call, ok) ==
    [ call EXCEPT !.observed = @ + 1, !.success = ok,
                  !.operation = call.operationName ]

\* The calls the controllers issue: when a bucket of the window starts, on the
\* lowest free place, within the bounds.
Arrives(c, maxInFlight, maxFires) ==
    /\ dbCircuitBreaker.bucketTimer = bucketInterval
    /\ Free(calls[c])
    /\ \A d \in CallIds : d < c => ~ Free(calls[d])
    /\ stat(dbCircuitBreaker, "fires") < maxFires
    /\ Admits(dbCircuitBreaker) =>
          Cardinality({ d \in CallIds : InFlight(calls[d]) }) < maxInFlight

\* dbCircuitBreaker.fire(operation, operationName): the 'fire' event is
\* counted; a circuit that is not closed and has no trial pending rejects with
\* EOPENBREAKER; otherwise the timeout is armed and the action is called: retry
\* computes its delays and starts the first attempt.
FireOperation(c, operationName, dur, draw) ==
    /\ Free(calls[c])
    /\ LET fired == increment(dbCircuitBreaker, "fires")
       IN IF ~ Admits(fired)
          THEN /\ dbCircuitBreaker' = increment(fired, "rejects")
               /\ calls' = [ calls EXCEPT ![c] =
                     [ NewCall EXCEPT !.st = "settled", !.out = "rejected",
                                      !.outErr = "EOPENBREAKER",
                                      !.firedIn = fired.state ] ]
          ELSE /\ dbCircuitBreaker' = [ fired EXCEPT !.pendingClose = FALSE ]
               /\ calls' = [ calls EXCEPT ![c] =
                     StartAttempt([ NewCall EXCEPT !.st = "pending", !.timer = timeout,
                                                   !.firedIn = fired.state,
                                                   !.timeouts = timeouts(draw),
                                                   !.operationName = operationName ],
                                  fired.state, dur) ]

\* fire(operation): operationName = 'unknown', the default of the parameter.
Fire(c, dur, draw) == FireOperation(c, "unknown", dur, draw)

\* Mutant of AttemptSucceeds: the result of a call that has timed out is
\* counted and delivered like any other.
AttemptSucceedsCountsLate(c) ==
    /\ calls[c].ex = "running"
    /\ calls[c].op = 0
    /\ dbCircuitBreaker' = succeed(dbCircuitBreaker)
    /\ calls' = [ calls EXCEPT ![c] =
          [ Observe([ calls[c] EXCEPT !.ex = "resolved", !.op = NoTimer ], TRUE)
              EXCEPT !.st = "settled", !.out = "ok", !.outErr = "none",
                     !.timer = NoTimer, !.age = 0 ] ]

\* The operation returns a value: retry resolves, the finally block observes
\* success; unless the call has timed out, the breaker clears the timeout,
\* emits 'success' and resolves the caller's promise.
AttemptSucceeds(c) ==
    /\ calls[c].ex = "running"
    /\ calls[c].op = 0
    /\ LET done == Observe([ calls[c] EXCEPT !.ex = "resolved", !.op = NoTimer ], TRUE)
       IN IF calls[c].st = "pending"
          THEN /\ dbCircuitBreaker' = succeed(dbCircuitBreaker)
               /\ calls' = [ calls EXCEPT ![c] =
                     [ done EXCEPT !.st = "settled", !.out = "ok",
                                   !.timer = NoTimer, !.age = 0 ] ]
          ELSE /\ calls' = [ calls EXCEPT ![c] = done ]
               /\ UNCHANGED dbCircuitBreaker

\* The executor's promise rejects with err (a bail, or the retries used up):
\* the finally block observes failure; unless the call has timed out,
\* handleError clears the timeout, counts the failure and rejects the caller's
\* promise with err.
ExecutorRejects(c, call, err) ==
    LET done == Observe([ call EXCEPT !.ex = "rejected", !.exErr = err,
                                      !.op = NoTimer ], FALSE)
    IN IF call.st = "pending"
       THEN /\ dbCircuitBreaker' = fail(dbCircuitBreaker)
            /\ calls' = [ calls EXCEPT ![c] =
                  [ done EXCEPT !.st = "settled", !.out = "error", !.outErr = err,
                                !.timer = NoTimer, !.age = 0 ] ]
       ELSE /\ calls' = [ calls EXCEPT ![c] = done ]
            /\ UNCHANGED dbCircuitBreaker

\* The operation throws err: a connection error is retried after the next
\* delay while one is left, and any other error bails.
AttemptThrows(c, err) ==
    /\ calls[c].ex = "running"
    /\ calls[c].op = 0
    /\ IF IsRetryable(err)
       THEN LET failed == [ calls[c] EXCEPT !.nfail = @ + 1, !.lastErr = err ]
            IN IF HasRetryLeft(failed)
               THEN /\ calls' = [ calls EXCEPT ![c] =
                          [ failed EXCEPT !.ex = "sleeping", !.op = NoTimer,
                                          !.backoff = Head(failed.timeouts),
                                          !.timeouts = Tail(failed.timeouts) ] ]
                    /\ UNCHANGED dbCircuitBreaker
               ELSE ExecutorRejects(c, failed, err)
       ELSE ExecutorRejects(c, [ calls[c] EXCEPT !.lastErr = err ], err)

\* The retry delay has passed: the operation is invoked again.
BackoffFires(c, dur) ==
    /\ calls[c].ex = "sleeping"
    /\ calls[c].backoff = 0
    /\ calls' = [ calls EXCEPT ![c] = StartAttempt(@, dbCircuitBreaker.state, dur) ]
    /\ UNCHANGED dbCircuitBreaker

\* The per-call timeout expires on a pending call: 'timeout' and 'failure' are
\* counted and the caller's promise rejects with ETIMEDOUT.  The executor is
\* not told and goes on.
TimeoutFires(c) ==
    /\ calls[c].st = "pending"
    /\ calls[c].timer = 0
    /\ dbCircuitBreaker' = fail(increment(dbCircuitBreaker, "timeouts"))
    /\ calls' = [ calls EXCEPT ![c] =
          [ @ EXCEPT !.st = "settled", !.out = "timeout", !.outErr = "ETIMEDOUT",
                     !.timer = NoTimer, !.age = 0 ] ]

\* The reset timer expires: the circuit becomes half-open.
ResetTimerFires ==
    /\ dbCircuitBreaker.resetTimer = 0
    /\ dbCircuitBreaker' = halfOpen(dbCircuitBreaker)
    /\ UNCHANGED calls

\* The window's interval timer: the buckets rotate.
BucketTimerFires ==
    /\ dbCircuitBreaker.bucketTimer = 0
    /\ dbCircuitBreaker' = [ dbCircuitBreaker EXCEPT
          !.window = nextBucket(@), !.bucketTimer = bucketInterval ]
    /\ UNCHANGED calls

\* The armed timers' times left.
ArmedTimers ==
    ( { dbCircuitBreaker.bucketTimer, dbCircuitBreaker.resetTimer }
        \cup { calls[c].timer : c \in CallIds }
        \cup { calls[c].backoff : c \in CallIds }
        \cup { calls[c].op : c \in CallIds } ) \ { NoTimer }

Elapse(t, d) == IF t = NoTimer THEN NoTimer ELSE t - d

\* Time passes until the next timer expires; no expired timer is waiting.
\* The calls that have finished are forgotten.
Tick ==
    /\ 0 \notin ArmedTimers
    /\ LET d == CHOOSE t \in ArmedTimers : \A u \in ArmedTimers : t <= u
       IN /\ dbCircuitBreaker' = [ dbCircuitBreaker EXCEPT
                !.bucketTimer = Elapse(@, d), !.resetTimer = Elapse(@, d),
                !.openAge = IF dbCircuitBreaker.state = "open" THEN @ + d ELSE @ ]
          /\ calls' = [ c \in CallIds |->
                IF Finished(calls[c]) THEN NewCall
                ELSE [ calls[c] EXCEPT !.timer = Elapse(@, d), !.backoff = Elapse(@, d),
                          !.op = Elapse(@, d),
                          !.age = IF calls[c].st = "pending" THEN @ + d ELSE @ ] ]

\* The breaker under store operations that succeed, fail with an error that
\* is no connection error, or are slow.
Next ==
    \/ /\ \E c \in CallIds, dur \in OpDurations, draw \in NoJitter :
             Arrives(c, MaxInFlight, MaxFires) /\ Fire(c, dur, draw)
       /\ UNCHANGED serviceVars
    \/ (\E c \in CallIds : AttemptSucceeds(c)) /\ UNCHANGED serviceVars
    \/ /\ \E c \in CallIds, err \in OtherErrors : AttemptThrows(c, err)
       /\ UNCHANGED serviceVars
    \/ (\E c \in CallIds : TimeoutFires(c)) /\ UNCHANGED serviceVars
    \/ ResetTimerFires /\ UNCHANGED serviceVars
    \/ BucketTimerFires /\ UNCHANGED serviceVars
    \/ Tick /\ UNCHANGED serviceVars

Spec == Init /\ [][Next]_vars

\* The breaker and the retrying executor under store operations that take no
\* time and succeed or fail, with connection errors too.
NextRetry ==
    \/ /\ \E c \in CallIds, operationName \in GivenOrNot, dur \in Immediate,
                draw \in RandomDraws :
             /\ Arrives(c, MaxRetryInFlight, MaxRetryFires)
             /\ FireOperation(c, operationName, dur, draw)
       /\ UNCHANGED serviceVars
    \/ (\E c \in CallIds : AttemptSucceeds(c)) /\ UNCHANGED serviceVars
    \/ /\ \E c \in CallIds, err \in StoreErrors : AttemptThrows(c, err)
       /\ UNCHANGED serviceVars
    \/ /\ \E c \in CallIds, dur \in Immediate : BackoffFires(c, dur)
       /\ UNCHANGED serviceVars
    \/ (\E c \in CallIds : TimeoutFires(c)) /\ UNCHANGED serviceVars
    \/ ResetTimerFires /\ UNCHANGED serviceVars
    \/ BucketTimerFires /\ UNCHANGED serviceVars
    \/ Tick /\ UNCHANGED serviceVars

SpecRetry == Init /\ [][NextRetry]_vars

\* The breaker under store operations that can return or throw when the
\* circuit has opened and become half-open since.
NextLate ==
    \/ /\ \E c \in CallIds, dur \in LateDurations, draw \in NoJitter :
             Arrives(c, MaxInFlight, MaxFires) /\ Fire(c, dur, draw)
       /\ UNCHANGED serviceVars
    \/ (\E c \in CallIds : AttemptSucceeds(c)) /\ UNCHANGED serviceVars
    \/ /\ \E c \in CallIds, err \in OtherErrors : AttemptThrows(c, err)
       /\ UNCHANGED serviceVars
    \/ (\E c \in CallIds : TimeoutFires(c)) /\ UNCHANGED serviceVars
    \/ ResetTimerFires /\ UNCHANGED serviceVars
    \/ BucketTimerFires /\ UNCHANGED serviceVars
    \/ Tick /\ UNCHANGED serviceVars

SpecLate == Init /\ [][NextLate]_vars

\* The retrying executor against a database that refuses every connection,
\* the delays drawn with their jitter.
NextBackoff ==
    \/ /\ \E c \in CallIds, draw \in JitterDraws :
             Arrives(c, MaxRetryInFlight, MaxRetryFires) /\ Fire(c, 0, draw)
       /\ UNCHANGED serviceVars
    \/ /\ \E c \in CallIds : AttemptThrows(c, "SequelizeConnectionRefusedError")
       /\ UNCHANGED serviceVars
    \/ /\ \E c \in CallIds : BackoffFires(c, 0)
       /\ UNCHANGED serviceVars
    \/ (\E c \in CallIds : TimeoutFires(c)) /\ UNCHANGED serviceVars
    \/ ResetTimerFires /\ UNCHANGED serviceVars
    \/ BucketTimerFires /\ UNCHANGED serviceVars
    \/ Tick /\ UNCHANGED serviceVars

SpecBackoff == Init /\ [][NextBackoff]_vars

\* The event loop: time passes, an expired timer runs its callback, and a
\* store operation that has taken its time returns or throws.
Fairness ==
    /\ WF_vars(Tick /\ UNCHANGED serviceVars)
    /\ WF_vars(ResetTimerFires /\ UNCHANGED serviceVars)
    /\ WF_vars(BucketTimerFires /\ UNCHANGED serviceVars)
    /\ \A c \in CallIds : WF_vars(TimeoutFires(c) /\ UNCHANGED serviceVars)
    /\ \A c \in CallIds :
          WF_vars(/\ AttemptSucceeds(c) \/ \E err \in OtherErrors : AttemptThrows(c, err)
                  /\ UNCHANGED serviceVars)

SpecLive == Spec /\ Fairness

\* ------------------------------------------------------------ handlers
\* The name and email of a request body, and the faults of the connection to
\* the database that an attempt can meet.
Profiles ==
    { [ name |-> "Test User", email |-> "test@example.com" ],
      [ name |-> "Updated User", email |-> "updated@example.com" ] }

\* A database that holds two users when the service starts.
Seeded ==
    [ mock |-> FALSE,
      rows |-> << [ id |-> 1, email |-> "test@example.com",
                    password |-> hash("password123"), name |-> "Test User" ],
                  [ id |-> 2, email |-> "other@example.com",
                    password |-> hash("password123"), name |-> "Other User" ] >>,
      nextId |-> 3 ]

\* The stores a service starts on: the mock, empty, or the database, empty or
\* with its users.
InitService ==
    /\ dbCircuitBreaker = NewBreaker
    /\ calls = [ c \in CallIds |-> NewCall ]
    /\ User \in { NewStore(TRUE), NewStore(FALSE), Seeded }
    /\ redisCache = NewCache
    /\ requests = [ r \in ReqIds |-> NewRequest ]
    /\ database = Connected

\* The service on the database with its users.
InitCache ==
    /\ dbCircuitBreaker = NewBreaker
    /\ calls = [ c \in CallIds |-> NewCall ]
    /\ User = Seeded
    /\ redisCache = NewCache
    /\ requests = [ r \in ReqIds |-> NewRequest ]
    /\ database = Connected

\* The operations of the mock return within the turn of the event loop that
\* invoked them: while one is under way nothing else runs.
Quiet(r) ==
    User.mock =>
        \A q \in ReqIds \ { r } :
            requests[q].call # 0 => calls[requests[q].call].ex # "running"

\* res.status(status).send(body) or res.json(body): the request is answered.
Respond(req, status, body) ==
    [ req EXCEPT !.pc = "done", !.status = status, !.body = body ]

\* A request arrives: its route runs the cache middleware (GET /:id) or the
\* handler.
Request(r, maxRequests, kind, userId, profile, password, newPassword) ==
    /\ Quiet(r)
    /\ r <= maxRequests
    /\ requests[r].pc = "new"
    /\ \A q \in ReqIds : q < r => requests[q].pc # "new"
    /\ requests' = [ requests EXCEPT ![r] =
          [ NewRequest EXCEPT
              !.kind = kind,
              !.pc = IF kind = "getUserById" THEN "cache" ELSE "handler",
              !.userId = userId, !.name = profile.name, !.email = profile.email,
              !.password = password, !.newPassword = newPassword,
              !.after = { q \in ReqIds : requests[q].pc = "done" },
              !.within = { q \in ReqIds : requests[q].pc = "done"
                                            /\ requests[q].age < routeTtl * 1000 } ] ]
    /\ UNCHANGED <<dbCircuitBreaker, calls, User, redisCache, database>>

\* cacheRoute(300) on GET /:id: an entry of the key answers the request; with
\* no entry the handler runs.
CacheLookup(r) ==
    /\ Quiet(r)
    /\ requests[r].pc = "cache"
    /\ LET cached == get(redisCache, key(requests[r].userId))
       IN requests' = [ requests EXCEPT ![r] =
             IF cached.hit
             THEN [ Respond(@, 200, "json") EXCEPT !.json = cached.value, !.hit = TRUE ]
             ELSE [ @ EXCEPT !.pc = "handler", !.cacheDown = ~ redisCache.connected ] ]
    /\ UNCHANGED <<dbCircuitBreaker, calls, User, redisCache, database>>

\* The operation a handler passes to fire(), on the store.
Operation(store, req) ==
    CASE req.operation = "findByPk" ->
            [ store |-> store, res |-> findByPk(store, req.userId) ]
      [] req.operation = "update" ->
            update(store, [ name |-> req.name, email |-> req.email ], req.userId)
      [] req.operation = "save" ->
            save(store, req.user, hash(req.newPassword))
      [] req.operation = "create" ->
            create(store, [ email |-> req.email, password |-> hash(req.password),
                            name |-> req.name ])
      [] req.operation = "findOne" ->
            [ store |-> store, res |-> findOne(store, req.email) ]
      [] req.operation = "authenticate" ->
            [ store |-> store, res |-> Returned(null, 0) ]

\* The operation of the handler's next call of fire().
NextOperation(req) ==
    CASE req.kind = "getUserById" -> "findByPk"
      [] req.kind = "updateUser" -> "update"
      [] req.kind = "changePassword" -> IF req.pc = "save" THEN "save" ELSE "findByPk"
      [] req.kind = "signup" -> "create"
      [] req.kind = "login" -> "findOne"
      [] req.kind = "checkHealth" -> "authenticate"

\* The name the handler passes to fire() with the operation, if any.
OperationName(operation) ==
    CASE operation = "findByPk" -> "unknown"
      [] operation = "update" -> "update_user"
      [] operation = "save" -> "update_user_password"
      [] operation = "create" -> "create_user"
      [] operation = "findOne" -> "find_user_by_email"
      [] operation = "authenticate" -> "health_check"

\* An attempt invokes the operation: the store executes it, unless the
\* connection fails, and its reply is under way.
Invoke(store, req, fault) ==
    LET done == Operation(store, req)
    IN IF fault = "none"
       THEN [ store |-> done.store,
              req |-> [ req EXCEPT !.res = done.res, !.storeOps = @ + 1,
                                   !.mutated = @ \/ done.store.rows # store.rows ] ]
       ELSE [ store |-> store,
              req |-> [ req EXCEPT !.res = Thrown(fault), !.storeOps = @ + 1 ] ]

\* The catch clause of a handler: signup tells the duplicate email, and the
\* health check that the ping failed.
Catch(req, err) ==
    IF req.kind = "signup" /\ err = "SequelizeUniqueConstraintError"
    THEN Respond(req, 400, "Email already in use")
    ELSE IF req.kind = "checkHealth"
    THEN Respond(req, 503, "failed")
    ELSE Respond(req, 500, "Internal server error")

\* Mutant of HandlerFires: the handler invokes the operation itself.
HandlerCallsStore(r, c, dur, draw, fault, maxInFlight, maxFires) ==
    /\ Quiet(r)
    /\ requests[r].pc \in { "handler", "save" }
    /\ LET invoked == Invoke(User, [ requests[r] EXCEPT
                          !.operation = NextOperation(requests[r]),
                          !.pc = "fired" ], fault)
       IN /\ User' = invoked.store
          /\ requests' = [ requests EXCEPT ![r] = invoked.req ]
    /\ UNCHANGED <<dbCircuitBreaker, calls, redisCache, database>>

\* The handler calls dbCircuitBreaker.fire(operation, operationName): the
\* breaker rejects the call, and the catch clause answers, or it invokes the
\* operation.
HandlerFires(r, c, dur, draw, fault, maxInFlight, maxFires) ==
    /\ Quiet(r)
    /\ requests[r].pc \in { "handler", "save" }
    /\ User.mock => (dur = 0 /\ fault = "none")
    /\ Arrives(c, maxInFlight, maxFires)
    /\ FireOperation(c, OperationName(NextOperation(requests[r])), dur, draw)
    /\ IF calls'[c].out = "rejected"
       THEN /\ requests' = [ requests EXCEPT ![r] =
                  Catch([ @ EXCEPT !.out = "rejected", !.outErr = calls'[c].outErr ],
                        calls'[c].outErr) ]
            /\ User' = User
       ELSE LET invoked == Invoke(User, [ requests[r] EXCEPT
                               !.operation = NextOperation(requests[r]),
                               !.pc = "fired", !.call = c ], fault)
            IN /\ User' = invoked.store
               /\ requests' = [ requests EXCEPT ![r] = invoked.req ]
    /\ UNCHANGED <<redisCache, database>>

\* Mutants of getUserById: the record is sent past the middleware of the
\* route; the body is kept for the ttl of the cache instead of the route's.
getUserByIdSend(req, cache) ==
    IF req.res.user = null
    THEN [ req |-> Respond(req, 404, "User not found"), cache |-> cache ]
    ELSE [ req |-> [ Respond(req, 200, "json") EXCEPT !.json = payload(req.res.user) ],
           cache |-> cache ]

getUserByIdDefaultTtl(req, cache) ==
    IF req.res.user = null
    THEN [ req |-> Respond(req, 404, "User not found"), cache |-> cache ]
    ELSE [ req |-> [ Respond(req, 200, "json") EXCEPT !.json = payload(req.res.user) ],
           cache |-> set(cache, key(req.userId), payload(req.res.user), ttl) ]

\* getUserById after await fire(...): the record is sent, through the
\* middleware of the route, which keeps the body under the key of the id.
getUserById(req, cache) ==
    IF req.res.user = null
    THEN [ req |-> Respond(req, 404, "User not found"), cache |-> cache ]
    ELSE [ req |-> [ Respond(req, 200, "json") EXCEPT !.json = payload(req.res.user) ],
           cache |-> set(cache, key(req.userId), payload(req.res.user), routeTtl) ]

\* Mutants of updateUser: the entry of the user is left in the cache; the
\* request fails when the cache is not connected; the entry is deleted before
\* the rows affected are looked at.
updateUserDelFirst(req, cache) ==
    IF req.res.updated = 0
    THEN [ req |-> Respond([ req EXCEPT !.invalidated = @ + 1 ], 404, "User not found"),
           cache |-> del(cache, key(req.userId)) ]
    ELSE [ req |-> [ req EXCEPT !.pc = "del", !.invalidated = @ + 1,
                                !.cacheDown = ~ cache.connected ],
           cache |-> del(cache, key(req.userId)) ]

updateUserWithoutDel(req, cache) ==
    IF req.res.updated = 0
    THEN [ req |-> Respond(req, 404, "User not found"), cache |-> cache ]
    ELSE [ req |-> [ req EXCEPT !.pc = "del" ], cache |-> cache ]

updateUserFailsWithCache(req, cache) ==
    IF req.res.updated = 0
    THEN [ req |-> Respond(req, 404, "User not found"), cache |-> cache ]
    ELSE IF ~ cache.connected
    THEN [ req |-> Respond([ req EXCEPT !.cacheDown = TRUE ], 500,
                           "Internal server error"),
           cache |-> cache ]
    ELSE [ req |-> [ req EXCEPT !.pc = "del", !.invalidated = @ + 1 ],
           cache |-> del(cache, key(req.userId)) ]

\* updateUser after await fire(...): no row, or the entry of the user is
\* deleted from the cache before the answer.
updateUser(req, cache) ==
    IF req.res.updated = 0
    THEN [ req |-> Respond(req, 404, "User not found"), cache |-> cache ]
    ELSE [ req |-> [ req EXCEPT !.pc = "del", !.invalidated = @ + 1,
                                !.cacheDown = ~ cache.connected ],
           cache |-> del(cache, key(req.userId)) ]

\* Mutant of changePassword: the old password is compared after the save.
changePasswordSavesFirst(req, cache) ==
    IF req.operation = "save"
    THEN IF compare(req.password, req.user.password)
         THEN [ req |-> Respond(req, 200, "Password changed"), cache |-> cache ]
         ELSE [ req |-> Respond(req, 400, "Invalid credentials"), cache |-> cache ]
    ELSE IF req.res.user = null
    THEN [ req |-> Respond(req, 404, "User not found"), cache |-> cache ]
    ELSE [ req |-> [ req EXCEPT !.pc = "save", !.user = req.res.user ], cache |-> cache ]

\* changePassword after the first await fire(...), and after the second.
changePassword(req, cache) ==
    IF req.operation = "save"
    THEN [ req |-> Respond(req, 200, "Password changed"), cache |-> cache ]
    ELSE IF req.res.user = null
    THEN [ req |-> Respond(req, 404, "User not found"), cache |-> cache ]
    ELSE IF ~ compare(req.password, req.res.user.password)
    THEN [ req |-> Respond(req, 400, "Invalid credentials"), cache |-> cache ]
    ELSE [ req |-> [ req EXCEPT !.pc = "save", !.user = req.res.user ], cache |-> cache ]

signup(req, cache) ==
    [ req |-> Respond(req, 201, "User created"), cache |-> cache ]

\* Mutant of login: an email without a record is told apart.
loginTellsUnknown(req, cache) ==
    IF req.res.user = null
    THEN [ req |-> Respond(req, 404, "User not found"), cache |-> cache ]
    ELSE IF ~ compare(req.password, req.res.user.password)
    THEN [ req |-> Respond(req, 400, "Invalid credentials"), cache |-> cache ]
    ELSE [ req |-> [ Respond(req, 200, "accessToken") EXCEPT !.user = req.res.user ],
           cache |-> cache ]

login(req, cache) ==
    IF req.res.user = null \/ ~ compare(req.password, req.res.user.password)
    THEN [ req |-> Respond(req, 400, "Invalid credentials"), cache |-> cache ]
    ELSE [ req |-> [ Respond(req, 200, "accessToken") EXCEPT !.user = req.res.user ],
           cache |-> cache ]

\* checkHealth after await fire(...): the ping was successful.
checkHealth(req, cache) ==
    [ req |-> Respond(req, 200, "OK"), cache |-> cache ]

\* The handler after await fire(...): the promise of fire() has settled, with
\* the result, or with an error for the catch clause.
Continue(req, cache, call) ==
    LET settled == [ req EXCEPT !.out = call.out, !.outErr = call.outErr ]
    IN IF call.out # "ok"
       THEN [ req |-> Catch(settled, call.outErr), cache |-> cache ]
       ELSE CASE req.kind = "getUserById" -> getUserById(settled, cache)
              [] req.kind = "updateUser" -> updateUser(settled, cache)
              [] req.kind = "changePassword" -> changePassword(settled, cache)
              [] req.kind = "signup" -> signup(settled, cache)
              [] req.kind = "login" -> login(settled, cache)
              [] req.kind = "checkHealth" -> checkHealth(settled, cache)

\* The store's reply arrives: the attempt returns or throws, and when that
\* settles the promise of fire() the handler goes on.
StoreReplies(r) ==
    /\ Quiet(r)
    /\ requests[r].call # 0
    /\ LET c == requests[r].call
       IN /\ IF requests[r].res.err = "none"
             THEN AttemptSucceeds(c)
             ELSE AttemptThrows(c, requests[r].res.err)
          /\ LET req == [ requests[r] EXCEPT
                            !.call = IF InFlight(calls'[c]) THEN @ ELSE 0 ]
             IN IF calls[c].st = "pending" /\ calls'[c].st = "settled"
                THEN LET next == Continue(req, redisCache, calls'[c])
                     IN /\ requests' = [ requests EXCEPT ![r] = next.req ]
                        /\ redisCache' = next.cache
                ELSE /\ requests' = [ requests EXCEPT ![r] = req ]
                     /\ redisCache' = redisCache
    /\ UNCHANGED <<User, database>>

\* The timeout of the call expires while the handler awaits fire(): the
\* promise rejects with ETIMEDOUT and the catch clause answers; the operation
\* is still under way.
HandlerTimesOut(r) ==
    /\ requests[r].call # 0
    /\ requests[r].pc = "fired"
    /\ TimeoutFires(requests[r].call)
    /\ requests' = [ requests EXCEPT ![r] =
          Catch([ @ EXCEPT !.out = "timeout", !.outErr = "ETIMEDOUT" ], "ETIMEDOUT") ]
    /\ UNCHANGED <<User, redisCache, database>>

\* await req.redisCache.del(userId) has returned: updateUser answers.
DelReplies(r) ==
    /\ Quiet(r)
    /\ requests[r].pc = "del"
    /\ requests' = [ requests EXCEPT ![r] = Respond(@, 200, "User updated") ]
    /\ UNCHANGED <<dbCircuitBreaker, calls, User, redisCache, database>>

\* The connection to the cache is lost, and made again.
CacheDisconnects ==
    /\ Quiet(0)
    /\ redisCache.connected
    /\ redisCache' = [ redisCache EXCEPT !.connected = FALSE ]
    /\ UNCHANGED <<dbCircuitBreaker, calls, User, requests, database>>

CacheConnects ==
    /\ Quiet(0)
    /\ ~ redisCache.connected
    /\ redisCache' = [ redisCache EXCEPT !.connected = TRUE ]
    /\ UNCHANGED <<dbCircuitBreaker, calls, User, requests, database>>

\* The requests of the five routes of the users, and of the health check.
Arrival(r) ==
    \/ \E id \in UserIds :
          Request(r, MaxRequests, "getUserById", id, [ name |-> "", email |-> "" ], "", "")
    \/ \E id \in UserIds, profile \in Profiles :
          Request(r, MaxRequests, "updateUser", id, profile, "", "")
    \/ \E id \in UserIds, old \in Passwords :
          Request(r, MaxRequests, "changePassword", id, [ name |-> "", email |-> "" ],
                  old, "newPassword456")
    \/ \E profile \in Profiles :
          Request(r, MaxRequests, "signup", 0, profile, "password123", "")
    \/ \E profile \in Profiles, password \in Passwords :
          Request(r, MaxRequests, "login", 0, [ name |-> "", email |-> profile.email ],
                  password, "")
    \/ Request(r, MaxRequests, "checkHealth", 0, [ name |-> "", email |-> "" ], "", "")

\* The service within one instant: the requests of the five routes on the
\* mock or the database, the cache being connected.
NextService ==
    \/ \E r \in ReqIds : Arrival(r)
    \/ \E r \in ReqIds : CacheLookup(r)
    \/ \E r \in ReqIds, c \in CallIds, draw \in NoJitter :
          HandlerFires(r, c, 0, draw, "none", MaxServiceInFlight, MaxServiceFires)
    \/ \E r \in ReqIds : StoreReplies(r)
    \/ \E r \in ReqIds : DelReplies(r)

SpecService == InitService /\ [][NextService]_vars

\* The reads and updates of the first user.
ReadOrUpdate(r) ==
    \/ Request(r, MaxCacheRequests, "getUserById", 1, [ name |-> "", email |-> "" ], "", "")
    \/ \E profile \in Profiles :
          Request(r, MaxCacheRequests, "updateUser", 1, profile, "", "")

\* The reads and updates of a user within one instant, with a cache that
\* comes and goes.
NextFailover ==
    \/ \E r \in ReqIds : ReadOrUpdate(r)
    \/ \E r \in ReqIds : CacheLookup(r)
    \/ \E r \in ReqIds, c \in CallIds, draw \in NoJitter :
          HandlerFires(r, c, 0, draw, "none", MaxServiceInFlight, MaxServiceFires)
    \/ \E r \in ReqIds : StoreReplies(r)
    \/ \E r \in ReqIds : DelReplies(r)
    \/ CacheDisconnects
    \/ CacheConnects

SpecFailover == InitCache /\ [][NextFailover]_vars

\* The service starts on the mock, empty, or on the database with its users.
InitPassword ==
    /\ dbCircuitBreaker = NewBreaker
    /\ calls = [ c \in CallIds |-> NewCall ]
    /\ User \in { NewStore(TRUE), Seeded }
    /\ redisCache = NewCache
    /\ requests = [ r \in ReqIds |-> NewRequest ]
    /\ database = Connected

\* No request is under way.
OneAtATime == \A q \in ReqIds : requests[q].pc \in { "new", "done" }

\* Signups, updates of the profile, changes of the password and logins, one
\* request after the other.
PasswordArrival(r) ==
    /\ OneAtATime
    /\ \/ Request(r, MaxPasswordRequests, "signup", 0,
                  [ name |-> "Test User", email |-> "test@example.com" ], "password123", "")
       \/ \E id \in UserIds :
             Request(r, MaxPasswordRequests, "updateUser", id,
                     [ name |-> "Updated User", email |-> "updated@example.com" ], "", "")
       \/ \E id \in UserIds :
             Request(r, MaxPasswordRequests, "changePassword", id,
                     [ name |-> "", email |-> "" ], "password123", "newPassword456")
       \/ \E profile \in Profiles, password \in Passwords :
             Request(r, MaxPasswordRequests, "login", 0,
                     [ name |-> "", email |-> profile.email ], password, "")

NextPassword ==
    \/ \E r \in ReqIds : PasswordArrival(r)
    \/ \E r \in ReqIds, c \in CallIds, draw \in NoJitter :
          HandlerFires(r, c, 0, draw, "none", MaxServiceInFlight, MaxPasswordFires)
    \/ \E r \in ReqIds : StoreReplies(r)
    \/ \E r \in ReqIds : DelReplies(r)

SpecPassword == InitPassword /\ [][NextPassword]_vars

\* A signup, and an update of the profile and a change of the password of
\* the first user, in any order and together.
RaceArrival(r) ==
    \/ Request(r, MaxRaceRequests, "signup", 0,
               [ name |-> "Test User", email |-> "test@example.com" ], "password123", "")
    \/ Request(r, MaxRaceRequests, "updateUser", 1,
               [ name |-> "Updated User", email |-> "updated@example.com" ], "", "")
    \/ Request(r, MaxRaceRequests, "changePassword", 1,
               [ name |-> "", email |-> "" ], "password123", "newPassword456")

NextRace ==
    \/ \E r \in ReqIds : RaceArrival(r)
    \/ \E r \in ReqIds, c \in CallIds, draw \in NoJitter :
          HandlerFires(r, c, 0, draw, "none", MaxServiceInFlight, MaxPasswordFires)
    \/ \E r \in ReqIds : StoreReplies(r)
    \/ \E r \in ReqIds : DelReplies(r)

SpecRace == InitPassword /\ [][NextRace]_vars

\* How long the operations of the store take in the service with its cache.
ReplyDurations == { 0, 4000 }

\* The time until the next timer expires.
NextExpiry == CHOOSE t \in ArmedTimers : \A u \in ArmedTimers : t <= u

\* The entries of the cache after d: an entry whose time has run out is gone.
Expire(cache, d) ==
    [ cache EXCEPT !.entries = [ k \in Keys |->
        IF cache.entries[k].present /\ cache.entries[k].expiry > d
        THEN [ cache.entries[k] EXCEPT !.expiry = @ - d ]
        ELSE NoEntry ] ]

\* Time passes in the service, until its last request is answered: the
\* timers of the breaker and the entries of the cache.  The cache and the
\* handlers' own steps take no time.
TickService ==
    /\ Quiet(0)
    /\ \E r \in 1..MaxCacheRequests : requests[r].pc # "done"
    /\ \A r \in ReqIds : requests[r].pc \in { "new", "fired", "done" }
    /\ Tick
    /\ redisCache' = Expire(redisCache, NextExpiry)
    /\ requests' = [ r \in ReqIds |->
          IF requests[r].pc = "done"
          THEN [ requests[r] EXCEPT !.age = Min(@ + NextExpiry, routeTtl * 1000) ]
          ELSE requests[r] ]
    /\ UNCHANGED <<User, database>>

\* The instants at which the requests of the timed service arrive: at the
\* start of a bucket of the window, shortly after the earlier answers or
\* about routeTtl after them.
ArrivalInstant ==
    /\ dbCircuitBreaker.bucketTimer = bucketInterval
    /\ \A q \in ReqIds :
          requests[q].pc = "done" =>
              \/ requests[q].age <= 2 * bucketInterval
              \/ requests[q].age >= routeTtl * 1000 - 2 * bucketInterval

\* The reads and updates of a user in time, on a connected cache and a
\* database whose replies take their time.
NextTimed ==
    \/ \E r \in ReqIds : ArrivalInstant /\ ReadOrUpdate(r)
    \/ \E r \in ReqIds : CacheLookup(r)
    \/ \E r \in ReqIds, c \in CallIds, dur \in ReplyDurations, draw \in NoJitter :
          HandlerFires(r, c, dur, draw, "none", MaxServiceInFlight, MaxServiceFires)
    \/ \E r \in ReqIds : StoreReplies(r)
    \/ \E r \in ReqIds : DelReplies(r)
    \/ BucketTimerFires /\ UNCHANGED serviceVars
    \/ TickService

SpecTimed == InitCache /\ [][NextTimed]_vars

\* How long the operations of a slow database take: no time, or longer than
\* the timeout.
SlowDurations == { 0, 12000 }

\* The service starts on the database, empty or with its users.
InitSlow ==
    /\ dbCircuitBreaker = NewBreaker
    /\ calls = [ c \in CallIds |-> NewCall ]
    /\ User \in { NewStore(FALSE), Seeded }
    /\ redisCache = NewCache
    /\ requests = [ r \in ReqIds |-> NewRequest ]
    /\ database = Connected

\* The reads of the first user and the updates of the users.
ReadOrUpdateAny(r) ==
    \/ Request(r, MaxCacheRequests, "getUserById", 1, [ name |-> "", email |-> "" ], "", "")
    \/ \E id \in UserIds :
          Request(r, MaxCacheRequests, "updateUser", id,
                  [ name |-> "Test User", email |-> "test@example.com" ], "", "")

\* The reads and updates in time, on a connected cache and a database whose
\* replies can take longer than the timeout of the breaker.
NextSlow ==
    \/ \E r \in ReqIds : ArrivalInstant /\ ReadOrUpdateAny(r)
    \/ \E r \in ReqIds : CacheLookup(r)
    \/ \E r \in ReqIds, c \in CallIds, dur \in SlowDurations, draw \in NoJitter :
          HandlerFires(r, c, dur, draw, "none", MaxServiceInFlight, MaxServiceFires)
    \/ \E r \in ReqIds : StoreReplies(r)
    \/ \E r \in ReqIds : HandlerTimesOut(r)
    \/ \E r \in ReqIds : DelReplies(r)
    \/ ResetTimerFires /\ UNCHANGED serviceVars
    \/ BucketTimerFires /\ UNCHANGED serviceVars
    \/ TickService

SpecSlow == InitSlow /\ [][NextSlow]_vars

\* ------------------------------------------------- database connection
\* let User: no model is installed yet.
undefined == [ mock |-> FALSE, rows |-> <<>>, nextId |-> 0 ]

retryDelayMs == 5000

\* Mutant of RetryLater: the catch clause throws the error on.
RetryLaterRethrows(db) ==
    [ db EXCEPT !.pc = "retry", !.promise = "rejected" ]

\* The catch clause of connectToDatabase: one timer is set for a new attempt
\* and the function returns.
RetryLater(db) ==
    [ db EXCEPT !.pc = "retry", !.timers = @ + 1, !.retryTimer = retryDelayMs,
                !.promise = "resolved" ]

\* connectToDatabase(uri) up to its first await: in mock mode the mock model
\* is installed and the function returns; otherwise the Sequelize instance is
\* made and authenticate() is under way.
connectToDatabase(db, user) ==
    IF db.mock
    THEN [ db |-> [ db EXCEPT !.pc = "done", !.promise = "resolved" ],
           user |-> NewStore(TRUE) ]
    ELSE [ db |-> [ db EXCEPT !.pc = "authenticate", !.promise = "pending",
                              !.attempts = Min(@ + 1, MaxAttempts) ],
           user |-> user ]

\* startServer awaits connectToDatabase().
StartServer ==
    /\ database.pc = "start"
    /\ LET called == connectToDatabase(database, User)
       IN /\ database' = called.db
          /\ User' = called.user
    /\ UNCHANGED <<dbCircuitBreaker, calls, redisCache, requests>>

\* The timer of the catch clause expires: connectToDatabase(uri) is called
\* again.
RetryTimerFires ==
    /\ database.pc = "retry"
    /\ database.retryTimer = 0
    /\ LET called == connectToDatabase([ database EXCEPT !.timers = @ - 1,
                                                         !.retryTimer = NoTimer ], User)
       IN /\ database' = called.db
          /\ User' = called.user
    /\ UNCHANGED <<dbCircuitBreaker, calls, redisCache, requests>>

\* initializeModels() up to its await: outside test mode the model is
\* defined on the connection, and sync() is under way.
initializeModels(db) == [ db EXCEPT !.pc = "sync" ]

\* await sequelize.authenticate() settles: connected, and the models are
\* initialised; the database does not exist (code 3D000), and a connection
\* to the database 'postgres' is made; or another error, thrown on.
Authenticates ==
    /\ database.pc = "authenticate"
    /\ IF ~ database.reachable
       THEN database' = RetryLater(database) /\ User' = User
       ELSE IF ~ database.exists
       THEN database' = [ database EXCEPT !.pc = "admin" ] /\ User' = User
       ELSE database' = initializeModels(database) /\ User' = Seeded
    /\ UNCHANGED <<dbCircuitBreaker, calls, redisCache, requests>>

\* await adminSequelize.authenticate() settles.
AdminAuthenticates ==
    /\ database.pc = "admin"
    /\ database' = IF database.reachable
                   THEN [ database EXCEPT !.pc = "create" ]
                   ELSE RetryLater(database)
    /\ UNCHANGED <<dbCircuitBreaker, calls, User, redisCache, requests>>

\* CREATE DATABASE and the close of the connection settle: the database is
\* there, or the query has failed (the server is gone, or the database has
\* been created meanwhile).
CreatesDatabase ==
    /\ database.pc = "create"
    /\ database' = IF database.reachable /\ ~ database.exists
                   THEN [ database EXCEPT !.pc = "reconnect", !.exists = TRUE ]
                   ELSE RetryLater(database)
    /\ UNCHANGED <<dbCircuitBreaker, calls, User, redisCache, requests>>

\* The second await sequelize.authenticate(), on the database just created,
\* settles.
Reconnects ==
    /\ database.pc = "reconnect"
    /\ IF database.reachable
       THEN database' = initializeModels(database) /\ User' = NewStore(FALSE)
       ELSE database' = RetryLater(database) /\ User' = User
    /\ UNCHANGED <<dbCircuitBreaker, calls, redisCache, requests>>

\* await sequelize.sync() settles: the models are initialised, or the error
\* reaches the catch clause.
Syncs ==
    /\ database.pc = "sync"
    /\ database' = IF database.reachable
                   THEN [ database EXCEPT !.pc = "done", !.promise = "resolved" ]
                   ELSE RetryLater(database)
    /\ UNCHANGED <<dbCircuitBreaker, calls, User, redisCache, requests>>

\* The time until the new attempt passes.
RetryDelayPasses ==
    /\ database.pc = "retry"
    /\ database.retryTimer \notin { 0, NoTimer }
    /\ database' = [ database EXCEPT !.retryTimer = 0 ]
    /\ UNCHANGED <<dbCircuitBreaker, calls, User, redisCache, requests>>

\* The server of the database goes down and comes up; the database is
\* created from elsewhere.
ServerGoesDown ==
    /\ ~ database.mock
    /\ database.pc # "done"
    /\ database.reachable
    /\ database' = [ database EXCEPT !.reachable = FALSE ]
    /\ UNCHANGED <<dbCircuitBreaker, calls, User, redisCache, requests>>

ServerComesUp ==
    /\ ~ database.reachable
    /\ database' = [ database EXCEPT !.reachable = TRUE ]
    /\ UNCHANGED <<dbCircuitBreaker, calls, User, redisCache, requests>>

DatabaseCreated ==
    /\ database.reachable
    /\ ~ database.exists
    /\ database' = [ database EXCEPT !.exists = TRUE ]
    /\ UNCHANGED <<dbCircuitBreaker, calls, User, redisCache, requests>>

\* The service starts: in mock mode, or against a server that is up or down,
\* with the database or without.
InitConnect ==
    /\ dbCircuitBreaker = NewBreaker
    /\ calls = [ c \in CallIds |-> NewCall ]
    /\ User = undefined
    /\ redisCache = NewCache
    /\ requests = [ r \in ReqIds |-> NewRequest ]
    /\ database \in { NewDatabase(TRUE, TRUE, TRUE) }
                      \cup { NewDatabase(FALSE, reachable, exists) :
                                reachable \in BOOLEAN, exists \in BOOLEAN }

NextConnect ==
    \/ StartServer
    \/ Authenticates
    \/ AdminAuthenticates
    \/ CreatesDatabase
    \/ Reconnects
    \/ Syncs
    \/ RetryDelayPasses
    \/ RetryTimerFires
    \/ ServerGoesDown
    \/ ServerComesUp
    \/ DatabaseCreated

\* The event loop: the promises settle, time passes, and an expired timer
\* runs its callback.
ConnectFairness ==
    /\ WF_vars(StartServer)
    /\ WF_vars(Authenticates)
    /\ WF_vars(AdminAuthenticates)
    /\ WF_vars(CreatesDatabase)
    /\ WF_vars(Reconnects)
    /\ WF_vars(Syncs)
    /\ WF_vars(RetryDelayPasses)
    /\ WF_vars(RetryTimerFires)

SpecConnect == InitConnect /\ [][NextConnect]_vars /\ ConnectFairness

\* ============================================================== claims
Failures(b) == stat(b, "failures")

\* C1: a call that fire() receives while the circuit is Open is rejected at
\* once with the circuit-open error, and its action is never invoked.
C1_OpenRejects ==
    \A c \in CallIds :
        calls[c].firedIn = "open" =>
            /\ calls[c].st = "settled"
            /\ calls[c].out = "rejected"
            /\ calls[c].outErr = "EOPENBREAKER"
            /\ calls[c].attempts = 0
            /\ calls[c].ex = "none"

C1_Witness ==
    \E c \in CallIds : calls[c].firedIn = "open" /\ calls[c].out = "rejected"

\* C2, as claimed: no store operation is started while the circuit is Open,
\* whichever call it belongs to.
C2_NoStoreWhileOpen ==
    \A c \in CallIds : calls[c].startedIn # "open"

\* C2, amended: a store operation started while the circuit is Open is a
\* retry of a call that the breaker admitted before it opened; a call that
\* arrives while the circuit is Open starts none.
C2_OnlyRetriesWhileOpen ==
    \A c \in CallIds :
        /\ calls[c].startedIn = "open" =>
              calls[c].firedIn \in { "closed", "halfOpen" } /\ calls[c].attempts >= 2
        /\ calls[c].firedIn = "open" => calls[c].startedIn = "none"

C2_Witness ==
    \E c, d \in CallIds :
        /\ calls[c].startedIn = "open" /\ calls[c].attempts >= 2
        /\ calls[d].firedIn = "open" /\ calls[d].out = "rejected"

\* C3, as claimed: the circuit goes from Closed to Open only when the error
\* rate of the window exceeds errorThresholdPercentage and the failures in the
\* window exceed failureThreshold.
C3_OpensAboveBothThresholds ==
    [][ (dbCircuitBreaker.state = "closed" /\ dbCircuitBreaker'.state = "open") =>
          /\ ErrorRateExceeded(stats(dbCircuitBreaker'))
          /\ Failures(dbCircuitBreaker') > failureThreshold ]_vars

\* The calls admitted as the trial of a half-open circuit and not settled.
Trials == { c \in CallIds : calls[c].firedIn = "halfOpen" /\ calls[c].st = "pending" }

\* C4: a half-open circuit is entered when the reset timeout has passed since
\* the circuit opened, and admits one trial call: while the trial is pending
\* every other call is rejected without its action being invoked; the trial's
\* success closes the circuit, its failure or timeout opens it again with the
\* whole reset timeout ahead.
C4_OneTrial ==
    /\ [] ( /\ Cardinality(Trials) <= 1
            /\ dbCircuitBreaker.state = "halfOpen" =>
                  (dbCircuitBreaker.pendingClose <=> Trials = {})
            /\ \A c \in CallIds :
                  (calls[c].firedIn = "halfOpen" /\ calls[c].st = "settled"
                        /\ calls[c].attempts = 0) =>
                      calls[c].out = "rejected" /\ calls[c].ex = "none"
            /\ \A c \in CallIds : calls[c].out = "rejected" => calls[c].attempts = 0 )
    /\ [][ /\ (dbCircuitBreaker.state # "halfOpen" /\ dbCircuitBreaker'.state = "halfOpen") =>
                 dbCircuitBreaker.state = "open" /\ dbCircuitBreaker.openAge = resetTimeout
           /\ \A c \in Trials :
                 calls'[c].st = "settled" =>
                    /\ calls'[c].out = "ok" => dbCircuitBreaker'.state = "closed"
                    /\ calls'[c].out \in { "error", "timeout" } =>
                          /\ dbCircuitBreaker'.state = "open"
                          /\ dbCircuitBreaker'.openAge = 0
                          /\ dbCircuitBreaker'.resetTimer = resetTimeout ]_vars

\* A call rejected while the trial of the half-open circuit is pending.
C4_Witness ==
    /\ dbCircuitBreaker.state = "halfOpen"
    /\ Trials # {}
    /\ \E c \in CallIds : calls[c].firedIn = "halfOpen" /\ calls[c].out = "rejected"

\* C5: an Open circuit becomes HalfOpen when resetTimeout has passed since it
\* opened, by its timer alone, and leaves Open in no other way and at no
\* other time.
C5_HalfOpenAfterResetTimeout ==
    /\ [] ( dbCircuitBreaker.state = "open" =>
              /\ dbCircuitBreaker.openAge <= resetTimeout
              /\ dbCircuitBreaker.openAge = resetTimeout => ENABLED ResetTimerFires )
    /\ [][ (dbCircuitBreaker.state = "open" /\ dbCircuitBreaker'.state # "open") =>
              /\ dbCircuitBreaker'.state = "halfOpen"
              /\ dbCircuitBreaker.openAge = resetTimeout
              /\ calls' = calls ]_vars
    /\ (dbCircuitBreaker.state = "open") ~> (dbCircuitBreaker.state = "halfOpen")

\* The circuit has become half-open with no call in progress.
C5_Witness ==
    /\ dbCircuitBreaker.state = "halfOpen"
    /\ dbCircuitBreaker.pendingClose
    /\ \A c \in CallIds : calls[c].st = "idle"

\* C6, as claimed: one invocation of the executor invokes the action at most
\* 5 times, the first attempt included.
C6_AtMostFiveAttempts ==
    \A c \in CallIds : calls[c].attempts <= 5

\* C6, amended: one invocation of the executor invokes the action at most
\* 6 times: the first attempt and 5 retries.
C6_AtMostRetriesPlusOne ==
    \A c \in CallIds : calls[c].attempts <= retries + 1

C6_Witness ==
    \E c \in CallIds : calls[c].attempts = retries + 1 /\ calls[c].nfail = retries

\* C7: when the action fails k times with a connection error, k within the
\* retries, and then succeeds, the executor resolves and has invoked the
\* action k + 1 times; no k <= retries connection errors make it reject.
C7_SuccessAfterRetries ==
    \A c \in CallIds :
        /\ calls[c].ex = "resolved" =>
              /\ calls[c].attempts = calls[c].nfail + 1
              /\ calls[c].nfail <= retries
              /\ calls[c].observed = 1 /\ calls[c].success
              /\ calls[c].exErr = "none"
        /\ (calls[c].ex = "rejected" /\ calls[c].exErr \in ConnectionErrors) =>
              calls[c].nfail > retries

C7_Witness ==
    \E c \in CallIds :
        calls[c].ex = "resolved" /\ calls[c].nfail = 2 /\ calls[c].attempts = 3

\* C8: an attempt that fails with an error that is no connection error makes
\* the executor reject with that error at once, and the action is not invoked
\* again: on the first attempt, one attempt in all.
C8_FatalErrorNotRetried ==
    \A c \in CallIds :
        (calls[c].lastErr # "none" /\ calls[c].lastErr \notin ConnectionErrors) =>
            /\ calls[c].ex = "rejected"
            /\ calls[c].exErr = calls[c].lastErr
            /\ calls[c].attempts = calls[c].nfail + 1
            /\ calls[c].backoff = NoTimer /\ calls[c].op = NoTimer

C8_Witness ==
    \E c \in CallIds :
        /\ calls[c].lastErr = "SequelizeUniqueConstraintError"
        /\ calls[c].ex = "rejected"
        /\ calls[c].attempts = 1

\* C9, as claimed: when every attempt of a call admitted by the Closed circuit
\* fails with a connection error, the retries are used up and the caller
\* receives that failure, with the store's error.
C9_ExhaustedRetriesSurface ==
    \A c \in CallIds :
        (calls[c].firedIn = "closed" /\ calls[c].ex = "rejected"
              /\ calls[c].exErr \in ConnectionErrors) =>
            calls[c].out = "error" /\ calls[c].outErr = calls[c].exErr

\* C10: the timeout runs from fire() over all attempts and delays: a call is
\* pending for at most timeout; the call that is still pending then is
\* rejected with ETIMEDOUT at that moment, whatever attempt or delay the
\* executor is in, and counts as one failure and one timeout in the window;
\* what the executor does later changes neither.
C10_TimeoutBoundsRetrySequence ==
    /\ [] ( \A c \in CallIds :
              /\ calls[c].st = "pending" =>
                    /\ calls[c].age <= timeout
                    /\ calls[c].timer = timeout - calls[c].age
                    /\ calls[c].age = timeout => ENABLED TimeoutFires(c)
              /\ calls[c].out = "timeout" => calls[c].outErr = "ETIMEDOUT" )
    /\ [][ \A c \in CallIds :
              /\ (calls[c].st = "pending" /\ calls'[c].out = "timeout") =>
                    /\ calls[c].age = timeout
                    /\ calls'[c].st = "settled"
                    /\ calls'[c].ex = calls[c].ex /\ calls'[c].attempts = calls[c].attempts
                    /\ Failures(dbCircuitBreaker') = Failures(dbCircuitBreaker) + 1
                    /\ stat(dbCircuitBreaker', "timeouts") =
                          stat(dbCircuitBreaker, "timeouts") + 1
              /\ (calls[c].out = "timeout" /\ calls[c].ex = "running"
                        /\ calls'[c].ex = "resolved") =>
                    /\ calls'[c].out = "timeout"
                    /\ dbCircuitBreaker' = dbCircuitBreaker ]_vars

\* A call that timed out in its retry sequence, and whose executor succeeded
\* in a later attempt.
C10_Witness ==
    \E c \in CallIds :
        /\ calls[c].out = "timeout"
        /\ calls[c].ex = "resolved"
        /\ calls[c].attempts >= 4

\* The outcomes the window has counted.
Outcomes(b, f) == stat(b, f)

\* C11: a call to fire() reports one outcome: a settled call has exactly one
\* of ok, error, timeout and rejected, and while its executor is still at work
\* nothing changes it; the step that settles calls counts one success or one
\* failure each in the window, a rejected call one reject, and a step in
\* which the executor of a settled call goes on or finishes leaves the
\* breaker as it is.
C11_OneOutcome ==
    /\ [] ( \A c \in CallIds :
              /\ calls[c].st = "settled" <=>
                    calls[c].out \in { "ok", "error", "timeout", "rejected" }
              /\ calls[c].st # "settled" => calls[c].out = "none" )
    /\ [][ /\ \A c \in CallIds :
                (calls[c].st = "settled" /\ InFlight(calls[c])) =>
                    /\ calls'[c].st = "settled"
                    /\ calls'[c].out = calls[c].out
                    /\ calls'[c].outErr = calls[c].outErr
                    /\ (calls'[c].ex # calls[c].ex
                          \/ calls'[c].attempts # calls[c].attempts) =>
                          dbCircuitBreaker' = dbCircuitBreaker
           /\ dbCircuitBreaker'.bucketTimer <= dbCircuitBreaker.bucketTimer =>
                /\ Outcomes(dbCircuitBreaker', "successes")
                      - Outcomes(dbCircuitBreaker, "successes") =
                   Cardinality({ c \in CallIds :
                      calls[c].st = "pending" /\ calls'[c].out = "ok" })
                /\ Outcomes(dbCircuitBreaker', "failures")
                      - Outcomes(dbCircuitBreaker, "failures") =
                   Cardinality({ c \in CallIds :
                      calls[c].st = "pending" /\ calls'[c].out \in { "error", "timeout" } })
                /\ Outcomes(dbCircuitBreaker', "rejects")
                      - Outcomes(dbCircuitBreaker, "rejects") =
                   IF /\ Outcomes(dbCircuitBreaker', "fires")
                            > Outcomes(dbCircuitBreaker, "fires")
                      /\ \A c \in CallIds :
                            calls'[c].st = "pending" => calls[c].st = "pending"
                   THEN 1 ELSE 0
                /\ Outcomes(dbCircuitBreaker', "rejects")
                      > Outcomes(dbCircuitBreaker, "rejects") =>
                   \E c \in CallIds :
                      /\ Free(calls[c]) /\ calls'[c].out = "rejected"
                      /\ calls'[c].attempts = 0 /\ calls'[c].ex = "none" ]_vars

\* A call that timed out on a slow store operation, which returned later.
C11_Witness ==
    \E c \in CallIds :
        /\ calls[c].out = "timeout"
        /\ calls[c].ex = "resolved"
        /\ calls[c].attempts = 1

\* The value the gauge has for a state of the circuit.
GaugeOf(state) ==
    CASE state = "closed" -> GaugeClosed
      [] state = "halfOpen" -> GaugeHalfOpen
      [] state = "open" -> GaugeOpen

\* C20: the gauge shows the state of the circuit: 1 from creation and while
\* Closed, 0 while Open, 0.5 while HalfOpen, in every reachable state.
C20_GaugeReflectsState ==
    dbCircuitBreaker.gauge = GaugeOf(dbCircuitBreaker.state)

\* A half-open circuit whose trial is under way.
C20_Witness ==
    /\ dbCircuitBreaker.state = "halfOpen"
    /\ dbCircuitBreaker.gauge = GaugeHalfOpen
    /\ ~ dbCircuitBreaker.pendingClose

\* A request that has been answered, and one answered before another arrived.
Answered(r) == requests[r].pc = "done"
Before(a, b) == a \in requests[b].after

\* The requests came one after the other.
Sequential ==
    \A a, b \in ReqIds :
        (a # b /\ requests[a].pc # "new" /\ requests[b].pc # "new") =>
            (Before(a, b) \/ Before(b, a))

\* A read of id answered with the record, a successful update of id after it,
\* and a read of id answered after that, with no other update of id between
\* the reads.
ReadUpdateRead(r1, r2, r3) ==
    /\ requests[r1].kind = "getUserById" /\ Answered(r1) /\ requests[r1].status = 200
    /\ requests[r2].kind = "updateUser" /\ Answered(r2) /\ requests[r2].status = 200
    /\ requests[r3].kind = "getUserById" /\ Answered(r3) /\ requests[r3].status = 200
    /\ requests[r2].userId = requests[r1].userId
    /\ requests[r3].userId = requests[r1].userId
    /\ Before(r1, r2) /\ Before(r2, r3)
    /\ \A u \in ReqIds \ { r2 } :
          (requests[u].kind = "updateUser" /\ requests[u].userId = requests[r1].userId) =>
              (Before(u, r1) \/ Before(r3, u))

C14_CacheNeverFailsRequest ==
    \A r \in ReqIds :
        /\ (requests[r].kind = "updateUser" /\ Answered(r)
                /\ requests[r].out = "ok" /\ requests[r].res.updated = 1) =>
              /\ requests[r].status = 200
              /\ requests[r].body = "User updated"
        /\ (requests[r].kind = "getUserById" /\ Answered(r) /\ requests[r].cacheDown) =>
              /\ ~ requests[r].hit
              /\ requests[r].out = "ok" =>
                    /\ requests[r].storeOps = 1
                    /\ IF requests[r].res.user = null
                       THEN requests[r].status = 404
                       ELSE /\ requests[r].status = 200
                            /\ requests[r].json = payload(requests[r].res.user)
              /\ requests[r].out # "ok" =>
                    requests[r].out \in { "rejected", "error", "timeout" }

\* An update and a read answered as usual while the cache was not connected.
C14_Witness ==
    \E r, q \in ReqIds :
        /\ requests[r].kind = "updateUser" /\ Answered(r)
        /\ requests[r].cacheDown /\ requests[r].status = 200
        /\ requests[q].kind = "getUserById" /\ Answered(q)
        /\ requests[q].cacheDown /\ requests[q].status = 200
        /\ requests[q].storeOps = 1

\* The handlers that write to the store.
Writes == { "updateUser", "changePassword", "signup" }
Success(r) == Answered(r) /\ requests[r].status \in { 200, 201 }

\* C13, as claimed: every updateUser, changePassword and signup that reports
\* success has called del on the key of its user, after the store changed the
\* record and before the answer.
C13_WritesInvalidate ==
    \A r \in ReqIds :
        (requests[r].kind \in Writes /\ Success(r)) => requests[r].invalidated >= 1

\* C13, amended: every updateUser that reports success has called del on the
\* key of its user once, after the store updated the record and before the
\* answer, and the entry is gone from a connected cache when del returns;
\* changePassword and signup call no operation of the cache.
C13_UpdateInvalidates ==
    /\ [] ( \A r \in ReqIds :
              /\ (requests[r].kind = "updateUser" /\ Success(r)) =>
                    requests[r].invalidated = 1
              /\ requests[r].invalidated > 0 =>
                    /\ requests[r].kind = "updateUser"
                    /\ requests[r].out = "ok" /\ requests[r].res.updated = 1
                    /\ requests[r].storeOps >= 1
              /\ requests[r].pc = "del" =>
                    requests[r].invalidated = 1 /\ requests[r].status = 0
              /\ requests[r].kind \in { "changePassword", "signup" } =>
                    requests[r].invalidated = 0 )
    /\ [][ \A r \in ReqIds :
              requests'[r].invalidated > requests[r].invalidated =>
                 /\ requests'[r].pc = "del"
                 /\ redisCache.connected =>
                       ~ get(redisCache', key(requests[r].userId)).hit
                 /\ redisCache'.entries[key(requests[r].userId)].present =>
                       ~ redisCache.connected ]_vars

\* An updateUser that has deleted the entry a read had made, and has not
\* answered yet.
C13_Witness ==
    \E r, q \in ReqIds :
        /\ requests[r].kind = "updateUser" /\ requests[r].pc = "del"
        /\ requests[r].invalidated = 1 /\ requests[r].mutated
        /\ requests[q].kind = "getUserById" /\ Before(q, r)
        /\ requests[q].status = 200 /\ requests[q].userId = requests[r].userId
        /\ ~ redisCache.entries[key(requests[r].userId)].present

\* C17, as claimed: no two records of the store have the same email, on the
\* database and on the mock.
C17_EmailUnique ==
    \A i, j \in 1..Len(User.rows) :
        i # j => User.rows[i].email # User.rows[j].email

\* C18, as claimed: a signup that the breaker passes to the store creates one
\* record and answers 201 when no record has its email; when a record has it,
\* create is invoked once, no record is created and the answer is 400
\* 'Email already in use'.
C18_DuplicateSignupRefused ==
    /\ [] ( \A r \in ReqIds :
              (requests[r].kind = "signup" /\ Answered(r)) =>
                 /\ requests[r].out = "ok" =>
                       requests[r].status = 201 /\ requests[r].storeOps = 1
                 /\ requests[r].outErr = "SequelizeUniqueConstraintError" =>
                       /\ requests[r].status = 400
                       /\ requests[r].body = "Email already in use"
                       /\ requests[r].storeOps = 1 )
    /\ [][ \A r \in ReqIds :
              (requests'[r].kind = "signup" /\ requests'[r].storeOps = 1
                    /\ requests[r].storeOps = 0) =>
                 IF EmailTaken(User, requests[r].email, 0)
                 THEN /\ User'.rows = User.rows
                      /\ requests'[r].res.err = "SequelizeUniqueConstraintError"
                 ELSE /\ Len(User'.rows) = Len(User.rows) + 1
                      /\ requests'[r].res.err = "none" ]_vars

\* The answer to a failure of the store that is no conflict of emails.
InternalError(r) ==
    /\ Answered(r)
    /\ requests[r].out \in { "error", "timeout" }
    /\ ~ (requests[r].kind = "signup"
              /\ requests[r].outErr = "SequelizeUniqueConstraintError")

\* C19, as claimed: a request whose call the Open circuit rejected is not
\* answered with the status of a request that failed on an error of the
\* store.
C19_OpenCircuitDistinguished ==
    \A r, q \in ReqIds :
        (Answered(r) /\ requests[r].out = "rejected" /\ InternalError(q)) =>
            requests[r].status # requests[q].status
\* A read of a user by id that was answered with the profile.
ReadOf(r, id) ==
    /\ Answered(r)
    /\ requests[r].kind = "getUserById"
    /\ requests[r].userId = id
    /\ requests[r].status = 200

\* An update of a user that was answered as done.
UpdateOf(u, id) ==
    /\ Answered(u)
    /\ requests[u].kind = "updateUser"
    /\ requests[u].userId = id
    /\ requests[u].status = 200

\* A request that changes user id has run, in part at least, between two reads.
WriteBetween(r1, r2, id) ==
    \E u \in ReqIds :
        /\ requests[u].pc # "new"
        /\ requests[u].kind # "getUserById"
        /\ requests[u].userId = id
        /\ ~Before(u, r1)
        /\ ~Before(r2, u)

\* The first read of an id, answered before any other request for the id
\* arrived, and a second one that arrives within routeTtl of the first
\* answer, with no write in between.
FirstAndSecondRead(r1, r2, id) ==
    /\ ReadOf(r1, id)
    /\ ReadOf(r2, id)
    /\ \A q \in ReqIds \ { r1 } :
          (requests[q].pc # "new" /\ requests[q].userId = id) => Before(r1, q)
    /\ r1 \in requests[r2].within
    /\ ~WriteBetween(r1, r2, id)

\* C15: with the cache connected, the first read of an id finds no entry,
\* reads the store once through the breaker and populates the cache; a second
\* read of the same id within the TTL, with no write in between, returns the
\* identical payload and performs no operation on the store.
C15_SecondReadFromCache ==
    \A r1, r2 \in ReqIds, id \in UserIds :
        FirstAndSecondRead(r1, r2, id) =>
            /\ ~requests[r1].hit
            /\ requests[r1].storeOps = 1
            /\ requests[r1].out = "ok"
            /\ requests[r2].hit
            /\ requests[r2].storeOps = 0
            /\ requests[r2].out = "none"
            /\ requests[r2].json = requests[r1].json

C15_Witness ==
    \E r1, r2 \in ReqIds :
        /\ FirstAndSecondRead(r1, r2, 1)
        /\ requests[r2].hit
        /\ requests[r2].json = [ name |-> "Test User", email |-> "test@example.com" ]
        /\ requests[r1].age > 0

\* A read r of user id that arrived after update u of it was answered, with
\* every other update of the user over before u arrived.
ReadAfterLastUpdate(u, r, id) ==
    /\ UpdateOf(u, id)
    /\ ReadOf(r, id)
    /\ Before(u, r)
    /\ \A v \in ReqIds \ { u } :
          (requests[v].pc # "new" /\ requests[v].kind = "updateUser"
             /\ requests[v].userId = id) => Before(v, u)

\* The read returned what the update wrote.
ReturnsUpdated(u, r) ==
    requests[r].json = [ name |-> requests[u].name, email |-> requests[u].email ]

\* A read of user id that ran while update u did.
RacingRead(q, u, id) ==
    /\ requests[q].pc # "new"
    /\ requests[q].kind = "getUserById"
    /\ requests[q].userId = id
    /\ ~Before(q, u)
    /\ ~Before(u, q)

\* C16 as stated: once one TTL has elapsed after the update completed, every
\* read of that id returns the value currently in the store.
C16_FreshOneTtlAfterUpdate ==
    \A u, r \in ReqIds, id \in UserIds :
        (ReadAfterLastUpdate(u, r, id) /\ u \notin requests[r].within)
            => ReturnsUpdated(u, r)

\* C16, amended: a read that raced the update may write the value it read
\* after the invalidation, and that entry lives one TTL from the answer of
\* the racing read.  Once one TTL has elapsed after the update completed and
\* after every read that raced it was answered, every read of that id returns
\* the value currently in the store.
C16_FreshOneTtlAfterRacingReads ==
    \A u, r \in ReqIds, id \in UserIds :
        ( /\ ReadAfterLastUpdate(u, r, id)
          /\ u \notin requests[r].within
          /\ \A q \in ReqIds \ { r } :
                RacingRead(q, u, id) => (Before(q, r) /\ q \notin requests[r].within) )
            => ReturnsUpdated(u, r)

\* A racing read wrote the stale value, and a read one TTL after it returns
\* the updated one from the store.
C16_Witness ==
    \E u, q, r \in ReqIds :
        /\ ReadAfterLastUpdate(u, r, 1)
        /\ RacingRead(q, u, 1)
        /\ ReadOf(q, 1)
        /\ ~ReturnsUpdated(u, q)
        /\ requests[q].json # [ name |-> requests[u].name, email |-> requests[u].email ]
        /\ Before(q, r)
        /\ q \notin requests[r].within
        /\ u \notin requests[r].within
        /\ ~requests[r].hit
        /\ ReturnsUpdated(u, r)
        /\ requests[u].name = "Updated User"

\* C21: each call admitted by the breaker emits one duration observation,
\* when its executor ends (with the result, a fatal error, or the retries
\* used up, before or after the timeout), labelled with the name given to
\* fire(), 'unknown' when none was given, and with success exactly when the
\* executor returned a result; never none at the end, never two, and none for
\* a call that was rejected.
C21_OneObservation ==
    /\ [] ( \A c \in CallIds :
              /\ calls[c].observed =
                    (IF calls[c].ex \in { "resolved", "rejected" } THEN 1 ELSE 0)
              /\ calls[c].observed = 1 =>
                    /\ calls[c].success <=> calls[c].ex = "resolved"
                    /\ calls[c].operation = calls[c].operationName
                    /\ calls[c].operation \in OperationNames
              /\ calls[c].out = "rejected" => calls[c].observed = 0 )
    /\ [][ \A c \in CallIds :
              calls'[c].observed > calls[c].observed =>
                  /\ InFlight(calls[c])
                  /\ ~ InFlight(calls'[c])
                  /\ calls'[c].attempts = calls[c].attempts ]_vars

\* The retries of a call were used up after it had timed out: one late
\* observation of a failure; and a call fired without a name.
C21_Witness ==
    \E c \in CallIds :
        /\ calls[c].out = "timeout"
        /\ calls[c].ex = "rejected"
        /\ calls[c].attempts = retries + 1
        /\ calls[c].observed = 1
        /\ ~ calls[c].success
        /\ calls[c].operation = "update_user"

\* C22: every operation on the record store that a handler issues (findByPk,
\* findOne, create, update, save and the ping of the health check) runs in
\* an attempt of a call that the breaker admitted for that request: a request
\* invokes an operation, and the store changes, only in a step in which a
\* call of the request starts an attempt.
C22_StoreOnlyThroughBreaker ==
    [][ /\ \A r \in ReqIds :
              requests'[r].storeOps # requests[r].storeOps =>
                  /\ requests'[r].storeOps = requests[r].storeOps + 1
                  /\ requests'[r].call # 0
                  /\ LET c == requests'[r].call
                     IN /\ calls'[c].ex = "running"
                        /\ calls'[c].attempts = 1 + (IF Free(calls[c]) THEN 0
                                                     ELSE calls[c].attempts)
                        /\ calls'[c].firedIn \in { "closed", "halfOpen" }
                        /\ calls'[c].operationName =
                              OperationName(requests'[r].operation)
                        /\ Free(calls[c]) =>
                              /\ Admits(dbCircuitBreaker)
                              /\ stat(dbCircuitBreaker', "fires")
                                    = stat(dbCircuitBreaker, "fires") + 1
        /\ User' # User =>
              \E r \in ReqIds : requests'[r].storeOps = requests[r].storeOps + 1 ]_vars

\* A password change that read and saved the record, and a health check that
\* pinged the database.
C22_Witness ==
    \E r, h \in ReqIds :
        /\ requests[r].kind = "changePassword"
        /\ requests[r].pc = "done" /\ requests[r].body = "Password changed"
        /\ requests[r].storeOps = 2
        /\ requests[h].kind = "checkHealth"
        /\ requests[h].pc = "done" /\ requests[h].status = 200
        /\ requests[h].storeOps = 1

\* The record of user id in the store, null when there is none.
RecordOf(id) == findByPk(User, id).user

\* Request p changed the password of a user, login l came after it, and every
\* signup, update and other change of a password was over before p arrived;
\* l names the email the user has.
LoginAfterChange(p, l) ==
    /\ Answered(p)
    /\ requests[p].kind = "changePassword"
    /\ requests[p].body = "Password changed"
    /\ Answered(l)
    /\ requests[l].kind = "login"
    /\ Before(p, l)
    /\ \A q \in ReqIds \ { p } :
          (requests[q].pc # "new" /\ requests[q].kind # "login") => Before(q, p)
    /\ requests[l].email = RecordOf(requests[p].userId).email

\* C23: after a successful changePassword of a user, login with the email the
\* user has and the new password succeeds and returns an access token and the
\* id of the user, and login with the old password is answered 'Invalid
\* credentials'; also when an updateUser changed the email before.
C23_LoginAfterChangePassword ==
    \A p, l \in ReqIds :
        LoginAfterChange(p, l) =>
            /\ requests[l].password = requests[p].newPassword =>
                  /\ requests[l].status = 200
                  /\ requests[l].body = "accessToken"
                  /\ requests[l].user.id = requests[p].userId
            /\ requests[l].password = requests[p].password =>
                  /\ requests[l].status = 400
                  /\ requests[l].body = "Invalid credentials"

\* An update of a profile that is under way or has been answered.
IsUpdate(r) == requests[r].kind = "updateUser" /\ requests[r].pc # "new"

\* C24: updateUser issues its invalidate only after a successful mutation of
\* the store, and never populates the cache: an update whose store operation
\* failed (an error, the timeout, the open circuit) or affected no row
\* ('User not found') has issued no invalidate, and the only change an update
\* makes to the cache is the removal of the entry of its user, in the step
\* in which its update has returned a row affected.
C24_InvalidateOnlyAfterMutation ==
    /\ [] ( \A r \in ReqIds :
              (IsUpdate(r) /\ Answered(r) /\ requests[r].status \in { 404, 500 }) =>
                  /\ requests[r].invalidated = 0
                  /\ requests[r].status = 404 =>
                        requests[r].body = "User not found" /\ ~ requests[r].mutated )
    /\ [][ \A r \in ReqIds :
              (IsUpdate(r) /\ requests[r].pc # "done" /\ requests'[r] # requests[r]) =>
                  /\ requests'[r].invalidated # requests[r].invalidated =>
                        /\ requests'[r].invalidated = 1
                        /\ requests'[r].out = "ok"
                        /\ requests'[r].res.updated = 1
                  /\ redisCache' # redisCache =>
                        /\ requests'[r].invalidated = requests[r].invalidated + 1
                        /\ redisCache' = del(redisCache, key(requests[r].userId)) ]_vars

\* The entry of user 1 is in the cache, and updates of the user have been
\* answered without an invalidate: one whose operation outlived the timeout,
\* one rejected by the open circuit.
C24_Witness ==
    \E r, q \in ReqIds :
        /\ IsUpdate(r) /\ Answered(r)
        /\ requests[r].userId = 1
        /\ requests[r].out = "timeout" /\ requests[r].status = 500
        /\ requests[r].invalidated = 0
        /\ IsUpdate(q) /\ Answered(q)
        /\ requests[q].out = "rejected" /\ requests[q].status = 500
        /\ requests[q].invalidated = 0
        /\ redisCache.entries[key(1)].present

\* The calls that a step settles with one of the outcomes.
SettledWith(outs) ==
    { c \in CallIds : calls[c].st = "pending" /\ calls'[c].st = "settled"
                        /\ calls'[c].out \in outs }

\* The counts of a step that does not rotate the window: one failure more for
\* each admitted call that the step ends with an error or with the timeout,
\* one success more for each that it ends with a result in time.
CountsEachOutcomeOnce ==
    dbCircuitBreaker'.bucketTimer <= dbCircuitBreaker.bucketTimer =>
        /\ Failures(dbCircuitBreaker') =
              Failures(dbCircuitBreaker) + Cardinality(SettledWith({ "error", "timeout" }))
        /\ stat(dbCircuitBreaker', "successes") =
              stat(dbCircuitBreaker, "successes") + Cardinality(SettledWith({ "ok" }))

\* C25 as stated: no count is lost, and whenever the error rate of the window
\* crosses the threshold on a Closed circuit, the circuit opens.
C25_CrossingOpens ==
    [][ /\ CountsEachOutcomeOnce
        /\ ( /\ dbCircuitBreaker.state = "closed"
              /\ ~ ErrorRateExceeded(stats(dbCircuitBreaker))
              /\ ErrorRateExceeded(stats(dbCircuitBreaker')) ) =>
                dbCircuitBreaker'.state = "open" ]_vars

\* C25, amended: the rate is looked at when a failure is counted, and only
\* then.  With calls in flight together on the one breaker, no count and no
\* transition is lost: in every step, the window counts one failure more for
\* each admitted call that the step ends with an error or with the timeout,
\* and one success more for each that it ends with a result in time, whatever
\* the other calls are doing; and when a failure is counted on a Closed
\* circuit and the error rate of the window then exceeds the threshold, the
\* circuit is Open after the step (a HalfOpen circuit is Open after any
\* failure).
C25_NoLostUpdate ==
    [][ dbCircuitBreaker'.bucketTimer <= dbCircuitBreaker.bucketTimer =>
          /\ Failures(dbCircuitBreaker') =
                Failures(dbCircuitBreaker) + Cardinality(SettledWith({ "error", "timeout" }))
          /\ stat(dbCircuitBreaker', "successes") =
                stat(dbCircuitBreaker, "successes") + Cardinality(SettledWith({ "ok" }))
          /\ stat(dbCircuitBreaker', "timeouts") =
                stat(dbCircuitBreaker, "timeouts") + Cardinality(SettledWith({ "timeout" }))
          /\ \A c \in CallIds :
                (calls[c].st = "settled" /\ ~ Free(calls[c])) =>
                    calls'[c].out = calls[c].out
          /\ Failures(dbCircuitBreaker') > Failures(dbCircuitBreaker) =>
                /\ (dbCircuitBreaker.state = "closed"
                      /\ ErrorRateExceeded(stats(dbCircuitBreaker'))) =>
                        dbCircuitBreaker'.state = "open"
                /\ dbCircuitBreaker.state = "halfOpen" =>
                        dbCircuitBreaker'.state = "open"
                /\ dbCircuitBreaker'.state # dbCircuitBreaker.state =>
                        dbCircuitBreaker'.state = "open" ]_vars

\* Two calls were in flight together on the Closed circuit: the failure of one
\* opened it, and the failure of the other was counted after that.
C25_Witness ==
    \E c, d \in CallIds :
        /\ c # d
        /\ calls[c].firedIn = "closed" /\ calls[c].out \in { "error", "timeout" }
        /\ calls[d].firedIn = "closed" /\ calls[d].out \in { "error", "timeout" }
        /\ dbCircuitBreaker.state = "open"
        /\ dbCircuitBreaker.openAge > 0
        /\ calls[d].age = 0 /\ calls[d].st = "settled"
        /\ Failures(dbCircuitBreaker) = 2
        /\ stat(dbCircuitBreaker, "fires") = 2

\* The least delay before retry n: the minimum, doubled with each retry, up
\* to the maximum.
LeastDelay(n) == Min(1000 * Pow(2, n - 1), 8000)

\* C26: the delay before retry n (n = 1, 2, ...) starts at the minimum and
\* doubles with each retry up to the maximum: every delay is between 1000 ms
\* and 8000 ms, the delay before retry n is at least min(1000 * 2^(n-1),
\* 8000) ms, and none exceeds 8000 ms with its jitter; for the delays a call
\* has before it, and for the delay it starts to wait.
C26_BackoffBounds ==
    /\ [] ( \A c \in CallIds :
              \A i \in 1..Len(calls[c].timeouts) :
                  LET n == retries - Len(calls[c].timeouts) + i
                  IN /\ calls[c].timeouts[i] >= 1000
                     /\ calls[c].timeouts[i] >= LeastDelay(n)
                     /\ calls[c].timeouts[i] <= 8000 )
    /\ [][ \A c \in CallIds :
              (calls[c].ex = "running" /\ calls'[c].ex = "sleeping") =>
                  /\ calls'[c].backoff >= LeastDelay(calls'[c].nfail)
                  /\ calls'[c].backoff <= 8000
                  /\ calls'[c].backoff = Head(calls[c].timeouts) ]_vars

\* A call starts to wait 3000 ms before its second retry, with 6000 ms and
\* twice 8000 ms to follow.
C26_Witness ==
    \E c \in CallIds :
        /\ calls[c].ex = "sleeping"
        /\ calls[c].nfail = 2
        /\ calls[c].backoff = 3000
        /\ calls[c].timeouts = << 6000, 8000, 8000 >>

\* C27: the id of a record is assigned once, at its creation, and is neither
\* changed nor used again: in every state the records have pairwise distinct
\* ids, all below the next id of the sequence; and in every step each record
\* keeps its id, no record disappears, and a new record gets the next id of
\* the sequence, which never goes back.
C27_IdAssignedOnce ==
    /\ [] ( /\ \A i, j \in 1..Len(User.rows) :
                  i # j => User.rows[i].id # User.rows[j].id
            /\ \A i \in 1..Len(User.rows) :
                  User.rows[i].id >= 1 /\ User.rows[i].id < User.nextId )
    /\ [][ /\ Len(User'.rows) >= Len(User.rows)
           /\ Len(User'.rows) <= Len(User.rows) + 1
           /\ User'.nextId >= User.nextId
           /\ \A i \in 1..Len(User.rows) : User'.rows[i].id = User.rows[i].id
           /\ Len(User'.rows) > Len(User.rows) =>
                 /\ User'.rows[Len(User'.rows)].id = User.nextId
                 /\ User'.nextId = User.nextId + 1 ]_vars

\* Two users have signed up on the mock, with the ids 1 and 2; and on the
\* database, the first user has a new profile and a new password.
C27_Witness ==
    \/ /\ User.mock
       /\ Len(User.rows) = 2
       /\ User.rows[1].id = 1 /\ User.rows[2].id = 2
       /\ \A r \in 1..MaxRequests : Answered(r) /\ requests[r].kind = "signup"
    \/ /\ ~ User.mock
       /\ Len(User.rows) = 2
       /\ User.rows[1].id = 1
       /\ User.rows[1].name = "Updated User"
       /\ User.rows[1].password = hash("newPassword456")
       /\ \A r \in 1..MaxRequests : Answered(r)

\* The calls admitted before the circuit was half-open whose promise is
\* settled and whose executor is still at work.
LateCalls ==
    { c \in CallIds : calls[c].firedIn = "closed" /\ calls[c].st = "settled"
                        /\ InFlight(calls[c]) }

\* C28: a half-open circuit is left only by the outcome of the trial admitted
\* while half-open.  No call admitted while Closed is pending any more when
\* the circuit is half-open (timeout is shorter than resetTimeout); the step
\* that leaves HalfOpen settles the trial, to Closed with its result and to
\* Open with its failure or timeout; and the step in which the executor of an
\* earlier call returns or throws leaves a half-open circuit as it is.
C28_OnlyTrialLeavesHalfOpen ==
    /\ [] ( dbCircuitBreaker.state = "halfOpen" =>
              \A c \in CallIds :
                  calls[c].st = "pending" => calls[c].firedIn = "halfOpen" )
    /\ [][ /\ (dbCircuitBreaker.state = "halfOpen"
                 /\ dbCircuitBreaker'.state # "halfOpen") =>
                \E c \in Trials :
                    /\ calls'[c].st = "settled"
                    /\ calls'[c].out = "ok" <=> dbCircuitBreaker'.state = "closed"
                    /\ calls'[c].out \in { "error", "timeout" }
                          <=> dbCircuitBreaker'.state = "open"
           /\ \A c \in LateCalls :
                (dbCircuitBreaker.state = "halfOpen" /\ calls'[c].ex # calls[c].ex) =>
                    dbCircuitBreaker' = dbCircuitBreaker ]_vars

\* The operation of a call admitted while Closed has returned after the
\* circuit became half-open, the trial being under way: the circuit is
\* half-open still.
C28_Witness ==
    /\ dbCircuitBreaker.state = "halfOpen"
    /\ Trials # {}
    /\ \E c \in CallIds :
          /\ calls[c].firedIn = "closed"
          /\ calls[c].out = "timeout"
          /\ calls[c].ex = "resolved"

\* The step in which the save of a change of password runs on the store.
Saves(r) ==
    /\ requests[r].kind = "changePassword"
    /\ requests'[r].operation = "save"
    /\ requests'[r].storeOps = requests[r].storeOps + 1

\* C29: changePassword changes the password of its record and nothing else:
\* in the step of its save the record keeps the id, name and email that the
\* store has for it, and every other record stays as it is, also when an
\* updateUser of the same user has completed between its findByPk and its
\* save.
C29_OnlyPasswordChanges ==
    [][ \A r \in ReqIds :
           Saves(r) =>
               /\ Len(User'.rows) = Len(User.rows)
               /\ \A i \in 1..Len(User.rows) :
                     IF User.rows[i].id = requests[r].userId
                     THEN /\ User'.rows[i].id = User.rows[i].id
                          /\ User'.rows[i].name = User.rows[i].name
                          /\ User'.rows[i].email = User.rows[i].email
                     ELSE User'.rows[i] = User.rows[i] ]_vars

\* ---------------------------------------------------------------- C30
\* A step in which a store operation throws, or a call times out.
StoreFails ==
    \E c \in CallIds :
       \/ calls[c].ex = "running" /\ calls'[c].ex \in { "sleeping", "rejected" }
       \/ calls[c].st = "pending" /\ calls'[c].out = "timeout"

\* A step in which a controller calls fire().
CallArrives ==
    \E c \in CallIds :
       /\ Free(calls[c])
       /\ calls'[c].st \in { "pending", "settled" }
       /\ stat(dbCircuitBreaker', "fires") = stat(dbCircuitBreaker, "fires") + 1

\* C30: recovery.  If from some moment on no store operation throws and no
\* call times out, and the controllers keep calling fire(), the circuit
\* becomes closed and stays closed from then on: it does not remain open or
\* half-open for ever.
C30_Recovery ==
    ( <>[][~ StoreFails]_vars /\ []<><<CallArrives>>_vars )
        => <>[](dbCircuitBreaker.state = "closed")

\* The trial call of a half-open circuit has succeeded and closed it.
C30_Witness ==
    /\ dbCircuitBreaker.state = "closed"
    /\ \E c \in CallIds :
          /\ calls[c].firedIn = "halfOpen"
          /\ calls[c].out = "ok"

\* ---------------------------------------------------------------- C31
\* changePassword has answered r with 'User not found' or 'Invalid
\* credentials'.
RejectedChange(r) ==
    /\ requests[r].kind = "changePassword"
    /\ Answered(r)
    /\ \/ requests[r].status = 404 /\ requests[r].body = "User not found"
       \/ requests[r].status = 400 /\ requests[r].body = "Invalid credentials"

\* The stored password hashes, record by record.
Hashes(store) == [ i \in 1..Len(store.rows) |-> store.rows[i].password ]

\* A step of the request r that is not its save.
StepWithoutSave(r) ==
    /\ requests[r].kind = "changePassword"
    /\ requests'[r] # requests[r]
    /\ ~ Saves(r)

\* C31: a rejected changePassword leaves the store unchanged.  The request
\* answered with 'User not found' or 'Invalid credentials' has passed
\* findByPk to the breaker and nothing else, the store has changed no record
\* for it, and no step of a changePassword other than its save changes a
\* record's password hash.
C31_RejectedChangeKeepsStore ==
    /\ [](\A r \in ReqIds :
            RejectedChange(r) =>
               /\ requests[r].operation = "findByPk"
               /\ requests[r].storeOps = 1
               /\ ~ requests[r].mutated)
    /\ [][ \A r \in ReqIds : StepWithoutSave(r) => Hashes(User') = Hashes(User) ]_vars

\* Both refusals have happened: a change for an id that has no record, and
\* one with an old password that is no longer the stored one.
C31_Witness ==
    \E a, b \in ReqIds :
       /\ RejectedChange(a) /\ requests[a].status = 404
       /\ RejectedChange(b) /\ requests[b].status = 400
       /\ \E i \in 1..Len(User.rows) :
             /\ User.rows[i].id = requests[b].userId
             /\ User.rows[i].password = hash("newPassword456")

\* ---------------------------------------------------------------- C32
\* What the client of login receives: the status, the message or the token,
\* and the id and name sent with the token.
LoginResponse(req) ==
    [ status |-> req.status, body |-> req.body,
      userId |-> req.user.id, name |-> req.user.name ]

InvalidCredentials ==
    [ status |-> 400, body |-> "Invalid credentials", userId |-> 0, name |-> "" ]

\* The records of the store with the email, and those of them whose stored
\* hash the password matches.
WithEmail(store, email) ==
    { i \in 1..Len(store.rows) : store.rows[i].email = email }
Matching(store, email, password) ==
    { i \in WithEmail(store, email) : compare(password, store.rows[i].password) }

\* The step in which login answers r, findOne having returned.
LoginAnswers(r) ==
    /\ requests[r].kind = "login"
    /\ ~ Answered(r)
    /\ requests'[r].pc = "done"
    /\ requests'[r].out = "ok"

\* C32: login does not reveal whether an email is registered.  Answering a
\* login whose email has no record, and one whose email has records none of
\* which has the password, the handler sends the same response, 400 and
\* 'Invalid credentials'; and it sends a token only when a record with the
\* email has the password, with that record's id and name.
C32_LoginTellsNothing ==
    [][ \A r \in ReqIds :
           LoginAnswers(r) =>
              LET req == requests'[r]
              IN /\ WithEmail(User, req.email) = {}
                    => LoginResponse(req) = InvalidCredentials
                 /\ ( /\ WithEmail(User, req.email) # {}
                      /\ Matching(User, req.email, req.password) = {} )
                    => LoginResponse(req) = InvalidCredentials
                 /\ req.status = 200
                    => \E i \in Matching(User, req.email, req.password) :
                          /\ req.body = "accessToken"
                          /\ req.user = User.rows[i] ]_vars

\* A login with an email that has no record, one with a wrong password and
\* one with the right password have been answered.
C32_Witness ==
    \E a, b, c \in ReqIds :
       /\ \A r \in { a, b, c } : requests[r].kind = "login" /\ Answered(r)
       /\ WithEmail(User, requests[a].email) = {}
       /\ LoginResponse(requests[a]) = InvalidCredentials
       /\ WithEmail(User, requests[b].email) # {}
       /\ Matching(User, requests[b].email, requests[b].password) = {}
       /\ LoginResponse(requests[b]) = InvalidCredentials
       /\ requests[c].status = 200

\* ---------------------------------------------------------------- C33
\* An attempt to connect is under way, and the step in which it fails.
Connecting ==
    database.pc \in { "authenticate", "admin", "create", "reconnect", "sync" }
AttemptFails == Connecting /\ database'.pc = "retry"

\* The User model is initialised.
ModelsInitialized == database.pc = "done" /\ User # undefined

\* C33: connectToDatabase never fails towards its caller.  Its promise is
\* never rejected; an attempt that fails, at whatever await, sets one timer of
\* 5000 ms and returns, no other timer being set; the attempt it is set for
\* is made, whatever the number of attempts before; if from some moment on
\* the database is reachable, the User model is initialised in the end; and
\* in mock mode the mock model is installed and no timer is ever set.
C33_ConnectRetriesForEver ==
    /\ [](database.promise # "rejected")
    /\ [][ AttemptFails =>
              /\ database'.promise = "resolved"
              /\ database'.timers = database.timers + 1
              /\ database'.retryTimer = retryDelayMs ]_vars
    /\ [](database.timers <= 1)
    /\ [][ Connecting => database'.pc # "done" \/ database.reachable ]_vars
    /\ (database.pc = "retry" ~> database.pc = "authenticate")
    /\ (<>[](database.reachable) => <>ModelsInitialized)
    /\ [](database.mock =>
             /\ database.timers = 0
             /\ database.pc \in { "start", "done" }
             /\ database.pc = "done" =>
                   User = NewStore(TRUE) /\ database.promise = "resolved")

\* The models are initialised after the attempts counted have failed, the
\* database having been created on the way.
C33_Witness ==
    /\ ModelsInitialized
    /\ ~ database.mock
    /\ database.attempts = MaxAttempts
    /\ User = NewStore(FALSE)

====
